---- MODULE Spec2Model ----
(***************************************************************************)
(* CertificateRegistry (signature-gated variant): the on-chain registry of *)
(* certificates, its issuer allow-list and the multi-signature issuer      *)
(* update proposals.  One action per external function of the contract.   *)
(* A transaction either runs to its end or reverts: a failed require       *)
(* discards every write and every event of the call.                       *)
(***************************************************************************)
EXTENDS Integers, Sequences, FiniteSets, TLC

\* ---------------------------------------------------------------- bounds
MaxProposals == 2
MaxThreshold == 2
MaxCerts == 2
MaxTime == 1
MaxIssuedAt == 1

\* -------------------------------------------------------------- domains
Zero == "0x0"
Owner == "owner"
Addr == {Zero, Owner, "a", "b"}
Callers == Addr \ {Zero}
\* the addresses offered as issuer arguments
IssuerArgs == {Zero, "a", "b"}
\* the addresses offered as the issuer of a certificate
CertIssuers == {"a", "b"}
\* what ECDSA.recover yields for a well-formed signature made over another digest
Junk == "junk"
ChainId == "chain"
OtherChainId == "otherchain"
Registry == "registry"

DocHashes == {"h1", "h2"}
Salts == {"s1", "s2"}
URIs == {"", "ipfs://cid"}
IssuedAts == 0..MaxIssuedAt
\* the values of block.timestamp offered
Times == 1..MaxTime
ProposalIds == 0..MaxProposals
Thresholds == 0..MaxThreshold
\* revoke reasons: the text and its length in bytes
MaxReasonLen == 256
Reasons ==
    {[text |-> "", len |-> 0], [text |-> "expired", len |-> 7], [text |-> "error", len |-> 5],
     [text |-> "too long", len |-> MaxReasonLen + 1]}
NoReason == [text |-> "", len |-> 0]

OK == "ok"

VARIABLES
    certificates,
    issuedByDocAndIssuer,
    isAuthorizedIssuer,
    issuerList,
    issuerIndexPlusOne,
    issuerUpdateThreshold,
    nextIssuerUpdateProposalId,
    issuerUpdateProposals,
    issuerUpdateApprovedBy,
    last,
    emitted,
    session,
    now,
    nextNonce,
    request

allowVars == <<isAuthorizedIssuer, issuerList, issuerIndexPlusOne>>
govVars == <<issuerUpdateThreshold, nextIssuerUpdateProposalId, issuerUpdateProposals, issuerUpdateApprovedBy>>
certVars == <<certificates, issuedByDocAndIssuer>>
stateVars == <<certVars, allowVars, govVars>>
\* the admin web application: the login session, the server clock in minutes, the number
\* of the next nonce and the body of the last verify request
webVars == <<session, now, nextNonce, request>>
vars == <<stateVars, last, emitted, webVars>>

\* ------------------------------------------------------- pure functions

\* one 32-byte word of the ABI encoding of a static value: byte strings are padded on
\* the right, integers and addresses of every width on the left
AbiWord(type, value) ==
    IF type = "bytes32" \/ type = "bytes16" THEN <<"right", value>> ELSE <<"left", value>>

\* keccak256, taken to be collision-free
Keccak256(bytes) == <<"keccak256", bytes>>

\* keccak256(abi.encode(docHash, salt, issuer, block.chainid, issuedAt)): one word per
\* value, in order, with the Solidity types of issueCertificate's arguments
DeriveId(docHash, salt, issuer, chainId, issuedAt) ==
    Keccak256(<<AbiWord("bytes32", docHash), AbiWord("bytes16", salt), AbiWord("address", issuer),
                AbiWord("uint256", chainId), AbiWord("uint64", issuedAt)>>)

\* the client's id computed over the packed encoding: every value at the width of its
\* type, without padding
generateCertificateId_Packed(docHash, salt, issuer, chainId, issuedAt) ==
    Keccak256(<< <<"bytes32", docHash>>, <<"bytes16", salt>>, <<"address", issuer>>,
                 <<"uint256", chainId>>, <<"uint256", issuedAt>> >>)

\* the web client's generateCertificateId
generateCertificateId(docHash, salt, issuer, chainId, issuedAt) ==
    Keccak256(<<AbiWord("bytes32", docHash), AbiWord("bytes16", salt), AbiWord("address", issuer),
                AbiWord("uint256", chainId), AbiWord("uint256", issuedAt)>>)

\* the test suite's deriveCertificateId
deriveCertificateId(docHash, salt, issuer, chainId, issuedAt) ==
    Keccak256(<<AbiWord("bytes32", docHash), AbiWord("bytes16", salt), AbiWord("address", issuer),
                AbiWord("uint256", chainId), AbiWord("uint64", issuedAt)>>)

\* keccak256(abi.encodePacked(docHash, issuer))
DocIssuerKey(docHash, issuer) == <<docHash, issuer>>


\* EIP-712 domain separator of this deployment
Domain == <<"CertificateRegistry", "1", ChainId, Registry>>

\* _hashTypedDataV4(structHash)
HashTypedDataV4(structHash) == <<Domain, structHash>>

NoSig == [signer |-> Zero, digest |-> <<>>]
Sign(k, digest) == [signer |-> k, digest |-> digest]

\* ECDSA.recover: reverts on empty bytes, else the key that signed this digest,
\* else an unrelated address
ECDSARecover(digest, sig) ==
    IF sig = NoSig THEN [err |-> "ECDSAInvalidSignatureLength", signer |-> Zero]
    ELSE IF sig.digest = digest THEN [err |-> OK, signer |-> sig.signer]
    ELSE [err |-> OK, signer |-> Junk]

IssueDigest(certificateId, docHash, storageURI, issuer, issuedAt, chainId, salt) ==
    HashTypedDataV4(<<"Issue", certificateId, docHash, storageURI, issuer, issuedAt, chainId, salt>>)

RecoverIssueSigner(certificateId, docHash, storageURI, issuer, issuedAt, salt, issuerSignature) ==
    ECDSARecover(IssueDigest(certificateId, docHash, storageURI, issuer, issuedAt, ChainId, salt), issuerSignature)

\* ------------------------------------------------------------- records
NoCertificate ==
    [docHash |-> "", storageURI |-> "", issuer |-> Zero, issuedAt |-> 0, status |-> "None",
     revokeReason |-> NoReason, revokedAt |-> 0, issuerSignature |-> NoSig, salt |-> "", revokeSignature |-> NoSig]

\* certificates[id]: a mapping holds the zero record at every key never written, so
\* `certificates` keeps the written keys only; issuedByDocAndIssuer, a mapping to bool,
\* is kept as the set of keys mapped to true
Cert(id) == IF id \in DOMAIN certificates THEN certificates[id] ELSE NoCertificate

NoProposal ==
    [action |-> "None", issuer |-> Zero, newIssuer |-> Zero, approvals |-> 0, executed |-> FALSE, createdAt |-> 0]

\* an optional field of the session or of a request body: <<>> when undefined
Undefined == <<>>
Some(v) == <<v>>

\* getIronSession of a request without cookie: {}
NoSession ==
    [walletAddress |-> Undefined, nonce |-> Undefined, nonceExpiresAt |-> Undefined, authenticated |-> Undefined]

NoRequest == [json |-> FALSE, address |-> Undefined, signature |-> Undefined]

Init ==
    /\ certificates = <<>>
    /\ issuedByDocAndIssuer = {}
    /\ isAuthorizedIssuer = [a \in Addr |-> FALSE]
    /\ issuerList = <<>>
    /\ issuerIndexPlusOne = [a \in Addr |-> 0]
    /\ issuerUpdateThreshold = 1
    /\ nextIssuerUpdateProposalId = 1
    /\ issuerUpdateProposals = [p \in ProposalIds |-> NoProposal]
    /\ issuerUpdateApprovedBy = [p \in ProposalIds |-> [a \in Addr |-> FALSE]]
    /\ last = [op |-> "constructor", err |-> OK]
    /\ emitted = <<>>
    /\ session = NoSession
    /\ now = 0
    /\ nextNonce = 1
    /\ request = NoRequest

\* a reverted call: no write and no event survives
Reverted(op, err) ==
    /\ last' = [op |-> op, err |-> err]
    /\ emitted' = <<>> /\ UNCHANGED webVars
    /\ UNCHANGED stateVars

Done(op, events) ==
    /\ last' = [op |-> op, err |-> OK]
    /\ emitted' = events /\ UNCHANGED webVars

\* the owner check letting allow-listed issuers through as well
OnlyOwnerErr_OrIssuer(caller) ==
    IF caller = Owner \/ isAuthorizedIssuer[caller] THEN OK ELSE "OwnableUnauthorizedAccount"

OnlyOwnerErr(caller) == IF caller = Owner THEN OK ELSE "OwnableUnauthorizedAccount"

\* ------------------------------------------------------------ allow-list
\* setIssuerUpdateThreshold's requires without the require on the value
SetThresholdErr_AllowsZero(caller, threshold) ==
    IF OnlyOwnerErr(caller) /= OK THEN OnlyOwnerErr(caller)
    ELSE OK

SetThresholdErr(caller, threshold) ==
    IF OnlyOwnerErr(caller) /= OK THEN OnlyOwnerErr(caller)
    ELSE IF ~(threshold > 0) THEN "Threshold zero"
    ELSE OK

IssuerUpdateThresholdUpdated(threshold) == [name |-> "IssuerUpdateThresholdUpdated", threshold |-> threshold]

setIssuerUpdateThreshold(caller, threshold) ==
    /\ SetThresholdErr(caller, threshold) = OK
    /\ issuerUpdateThreshold' = threshold
    /\ Done("setIssuerUpdateThreshold", <<IssuerUpdateThresholdUpdated(threshold)>>)
    /\ UNCHANGED <<certVars, allowVars, nextIssuerUpdateProposalId, issuerUpdateProposals, issuerUpdateApprovedBy>>

\* the allow-list as a record, so that the list surgery composes inside one call
AllowList == [auth |-> isAuthorizedIssuer, list |-> issuerList, idx |-> issuerIndexPlusOne]

\* isAuthorizedIssuer[x] = true; issuerList.push(x); issuerIndexPlusOne[x] = length
PushIssuer(al, issuer) ==
    [auth |-> [al.auth EXCEPT ![issuer] = TRUE],
     list |-> Append(al.list, issuer),
     idx |-> [al.idx EXCEPT ![issuer] = Len(al.list) + 1]]

\* the removal without the index update of the member moved into the gap
PopIssuer_NoIndexFix(al, issuer) ==
    LET idxPlusOne == al.idx[issuer]
        lastIdx == Len(al.list)
        lastIssuer == al.list[lastIdx]
        moved == IF idxPlusOne /= lastIdx
                 THEN [al.list EXCEPT ![idxPlusOne] = lastIssuer]
                 ELSE al.list
    IN  IF idxPlusOne /= 0
        THEN [auth |-> [al.auth EXCEPT ![issuer] = FALSE],
              list |-> SubSeq(moved, 1, lastIdx - 1),
              idx |-> [al.idx EXCEPT ![issuer] = 0]]
        ELSE [auth |-> [al.auth EXCEPT ![issuer] = FALSE], list |-> al.list, idx |-> al.idx]

\* the removal that closes the gap by shifting every later member down one slot
PopIssuer_Shift(al, issuer) ==
    LET idxPlusOne == al.idx[issuer]
        lastIdx == Len(al.list)
    IN  IF idxPlusOne /= 0
        THEN [auth |-> [al.auth EXCEPT ![issuer] = FALSE],
              list |-> [i \in 1..(lastIdx - 1) |-> IF i < idxPlusOne THEN al.list[i] ELSE al.list[i + 1]],
              idx |-> [a \in DOMAIN al.idx |->
                          IF a = issuer THEN 0
                          ELSE IF al.idx[a] > idxPlusOne THEN al.idx[a] - 1 ELSE al.idx[a]]]
        ELSE [auth |-> [al.auth EXCEPT ![issuer] = FALSE], list |-> al.list, idx |-> al.idx]

\* isAuthorizedIssuer[x] = false; swap-with-last and pop when the index is set
PopIssuer(al, issuer) ==
    LET idxPlusOne == al.idx[issuer]
        lastIdx == Len(al.list)
        lastIssuer == al.list[lastIdx]
        moved == IF idxPlusOne /= lastIdx
                 THEN [list |-> [al.list EXCEPT ![idxPlusOne] = lastIssuer],
                       idx |-> [al.idx EXCEPT ![lastIssuer] = idxPlusOne]]
                 ELSE [list |-> al.list, idx |-> al.idx]
    IN  IF idxPlusOne /= 0
        THEN [auth |-> [al.auth EXCEPT ![issuer] = FALSE],
              list |-> SubSeq(moved.list, 1, lastIdx - 1),
              idx |-> [moved.idx EXCEPT ![issuer] = 0]]
        ELSE [auth |-> [al.auth EXCEPT ![issuer] = FALSE], list |-> al.list, idx |-> al.idx]

StoreAllowList(al) ==
    /\ isAuthorizedIssuer' = al.auth
    /\ issuerList' = al.list
    /\ issuerIndexPlusOne' = al.idx

IssuerUpdated(issuer, authorized) == [name |-> "IssuerUpdated", issuer |-> issuer, authorized |-> authorized]

AddIssuerErr(caller, issuer) ==
    IF OnlyOwnerErr(caller) /= OK THEN OnlyOwnerErr(caller)
    ELSE IF ~(issuer /= Zero) THEN "Issuer zero"
    ELSE IF ~(~isAuthorizedIssuer[issuer]) THEN "Already issuer"
    ELSE OK

addIssuer(caller, issuer) ==
    /\ AddIssuerErr(caller, issuer) = OK
    /\ StoreAllowList(PushIssuer(AllowList, issuer))
    /\ Done("addIssuer", <<IssuerUpdated(issuer, TRUE)>>)
    /\ UNCHANGED <<certVars, govVars>>

RemoveIssuerErr(caller, issuer) ==
    IF OnlyOwnerErr(caller) /= OK THEN OnlyOwnerErr(caller)
    ELSE IF ~isAuthorizedIssuer[issuer] THEN "Not issuer"
    ELSE OK

removeIssuer(caller, issuer) ==
    /\ RemoveIssuerErr(caller, issuer) = OK
    /\ StoreAllowList(PopIssuer(AllowList, issuer))
    /\ Done("removeIssuer", <<IssuerUpdated(issuer, FALSE)>>)
    /\ UNCHANGED <<certVars, govVars>>

\* ------------------------------------------------------------ governance
ProposeAddErr(caller, newIssuer) ==
    IF OnlyOwnerErr(caller) /= OK THEN OnlyOwnerErr(caller)
    ELSE IF ~(newIssuer /= Zero) THEN "Issuer zero"
    ELSE IF ~(~isAuthorizedIssuer[newIssuer]) THEN "Already issuer"
    ELSE OK

IssuerUpdateProposed(proposalId, action, issuer, newIssuer, createdAt) ==
    [name |-> "IssuerUpdateProposed", proposalId |-> proposalId, action |-> action,
     issuer |-> issuer, newIssuer |-> newIssuer, createdAt |-> createdAt]

\* the store with the counter incremented before it is read
StoreProposal_PreIncrement(action, issuer, newIssuer, blockTimestamp) ==
    LET proposalId == nextIssuerUpdateProposalId + 1 IN
    /\ nextIssuerUpdateProposalId' = nextIssuerUpdateProposalId + 1
    /\ issuerUpdateProposals' = [issuerUpdateProposals EXCEPT ![proposalId] =
            [action |-> action, issuer |-> issuer, newIssuer |-> newIssuer,
             approvals |-> 0, executed |-> FALSE, createdAt |-> blockTimestamp]]
    /\ emitted' = <<IssuerUpdateProposed(proposalId, action, issuer, newIssuer, blockTimestamp)>> /\ UNCHANGED webVars

\* proposalId = nextIssuerUpdateProposalId++; issuerUpdateProposals[proposalId] = {...}
StoreProposal(action, issuer, newIssuer, blockTimestamp) ==
    LET proposalId == nextIssuerUpdateProposalId IN
    /\ nextIssuerUpdateProposalId' = nextIssuerUpdateProposalId + 1
    /\ issuerUpdateProposals' = [issuerUpdateProposals EXCEPT ![proposalId] =
            [action |-> action, issuer |-> issuer, newIssuer |-> newIssuer,
             approvals |-> 0, executed |-> FALSE, createdAt |-> blockTimestamp]]
    /\ emitted' = <<IssuerUpdateProposed(proposalId, action, issuer, newIssuer, blockTimestamp)>> /\ UNCHANGED webVars

proposeAddIssuer(caller, newIssuer, blockTimestamp) ==
    /\ ProposeAddErr(caller, newIssuer) = OK
    /\ nextIssuerUpdateProposalId <= MaxProposals
    /\ StoreProposal("Add", Zero, newIssuer, blockTimestamp)
    /\ last' = [op |-> "proposeAddIssuer", err |-> OK]
    /\ UNCHANGED <<certVars, allowVars, issuerUpdateThreshold, issuerUpdateApprovedBy>>

\* proposeRotateIssuer's requires without the require on the old issuer
ProposeRotateErr_NoOldCheck(caller, issuer, newIssuer) ==
    IF OnlyOwnerErr(caller) /= OK THEN OnlyOwnerErr(caller)
    ELSE IF ~(newIssuer /= Zero) THEN "Issuer zero"
    ELSE IF ~(~isAuthorizedIssuer[newIssuer]) THEN "Already issuer"
    ELSE IF ~(issuer /= newIssuer) THEN "Same issuer"
    ELSE OK

ProposeRotateErr(caller, issuer, newIssuer) ==
    IF OnlyOwnerErr(caller) /= OK THEN OnlyOwnerErr(caller)
    ELSE IF ~isAuthorizedIssuer[issuer] THEN "Not issuer"
    ELSE IF ~(newIssuer /= Zero) THEN "Issuer zero"
    ELSE IF ~(~isAuthorizedIssuer[newIssuer]) THEN "Already issuer"
    ELSE IF ~(issuer /= newIssuer) THEN "Same issuer"
    ELSE OK

proposeRotateIssuer(caller, issuer, newIssuer, blockTimestamp) ==
    /\ ProposeRotateErr(caller, issuer, newIssuer) = OK
    /\ nextIssuerUpdateProposalId <= MaxProposals
    /\ StoreProposal("Rotate", issuer, newIssuer, blockTimestamp)
    /\ last' = [op |-> "proposeRotateIssuer", err |-> OK]
    /\ UNCHANGED <<certVars, allowVars, issuerUpdateThreshold, issuerUpdateApprovedBy>>

OnlyAuthorizedIssuerErr(caller) == IF isAuthorizedIssuer[caller] THEN OK ELSE "Issuer not authorized"

\* approveIssuerUpdate's requires without the per-approver require
ApproveErr_NoAlreadyApproved(caller, proposalId) ==
    LET p == issuerUpdateProposals[proposalId] IN
    IF OnlyAuthorizedIssuerErr(caller) /= OK THEN OnlyAuthorizedIssuerErr(caller)
    ELSE IF ~(p.action /= "None") THEN "Proposal missing"
    ELSE IF ~(~p.executed) THEN "Already executed"
    ELSE OK

ApproveErr(caller, proposalId) ==
    LET p == issuerUpdateProposals[proposalId] IN
    IF OnlyAuthorizedIssuerErr(caller) /= OK THEN OnlyAuthorizedIssuerErr(caller)
    ELSE IF ~(p.action /= "None") THEN "Proposal missing"
    ELSE IF ~(~p.executed) THEN "Already executed"
    ELSE IF ~(~issuerUpdateApprovedBy[proposalId][caller]) THEN "Already approved"
    ELSE OK

IssuerUpdateApproved(proposalId, approver, approvals) ==
    [name |-> "IssuerUpdateApproved", proposalId |-> proposalId, approver |-> approver, approvals |-> approvals]

\* approveIssuerUpdate counting the approval without recording the approver
approveIssuerUpdate_NoRecord(caller, proposalId) ==
    LET p == issuerUpdateProposals[proposalId] IN
    /\ ApproveErr(caller, proposalId) = OK
    /\ issuerUpdateProposals' = [issuerUpdateProposals EXCEPT ![proposalId].approvals = p.approvals + 1]
    /\ Done("approveIssuerUpdate", <<IssuerUpdateApproved(proposalId, caller, p.approvals + 1)>>)
    /\ UNCHANGED <<certVars, allowVars, issuerUpdateThreshold, nextIssuerUpdateProposalId, issuerUpdateApprovedBy>>

\* approveIssuerUpdate recording the approver without counting the approval
approveIssuerUpdate_NoCount(caller, proposalId) ==
    LET p == issuerUpdateProposals[proposalId] IN
    /\ ApproveErr(caller, proposalId) = OK
    /\ issuerUpdateApprovedBy' = [issuerUpdateApprovedBy EXCEPT ![proposalId][caller] = TRUE]
    /\ issuerUpdateProposals' = issuerUpdateProposals
    /\ Done("approveIssuerUpdate", <<IssuerUpdateApproved(proposalId, caller, p.approvals)>>)
    /\ UNCHANGED <<certVars, allowVars, issuerUpdateThreshold, nextIssuerUpdateProposalId>>

approveIssuerUpdate(caller, proposalId) ==
    LET p == issuerUpdateProposals[proposalId] IN
    /\ ApproveErr(caller, proposalId) = OK
    /\ issuerUpdateApprovedBy' = [issuerUpdateApprovedBy EXCEPT ![proposalId][caller] = TRUE]
    /\ issuerUpdateProposals' = [issuerUpdateProposals EXCEPT ![proposalId].approvals = p.approvals + 1]
    /\ Done("approveIssuerUpdate", <<IssuerUpdateApproved(proposalId, caller, p.approvals + 1)>>)
    /\ UNCHANGED <<certVars, allowVars, issuerUpdateThreshold, nextIssuerUpdateProposalId>>

\* executeIssuerUpdate's first requires without the threshold require
ExecuteGuardErr_NoThreshold(caller, proposalId) ==
    LET p == issuerUpdateProposals[proposalId] IN
    IF OnlyOwnerErr(caller) /= OK THEN OnlyOwnerErr(caller)
    ELSE IF ~(p.action /= "None") THEN "Proposal missing"
    ELSE IF ~(~p.executed) THEN "Already executed"
    ELSE OK

\* executeIssuerUpdate's first requires with a strict threshold comparison
ExecuteGuardErr_Strict(caller, proposalId) ==
    LET p == issuerUpdateProposals[proposalId] IN
    IF OnlyOwnerErr(caller) /= OK THEN OnlyOwnerErr(caller)
    ELSE IF ~(p.action /= "None") THEN "Proposal missing"
    ELSE IF ~(~p.executed) THEN "Already executed"
    ELSE IF ~(p.approvals > issuerUpdateThreshold) THEN "Insufficient approvals"
    ELSE OK

\* executeIssuerUpdate's first requires without the executed require
ExecuteGuardErr_NoExecutedCheck(caller, proposalId) ==
    LET p == issuerUpdateProposals[proposalId] IN
    IF OnlyOwnerErr(caller) /= OK THEN OnlyOwnerErr(caller)
    ELSE IF ~(p.action /= "None") THEN "Proposal missing"
    ELSE IF ~(p.approvals >= issuerUpdateThreshold) THEN "Insufficient approvals"
    ELSE OK

\* the requires with the threshold compared to the approvers still on the allow-list
ExecuteGuardErr_LiveApprovers(caller, proposalId) ==
    LET p == issuerUpdateProposals[proposalId] IN
    IF OnlyOwnerErr(caller) /= OK THEN OnlyOwnerErr(caller)
    ELSE IF ~(p.action /= "None") THEN "Proposal missing"
    ELSE IF ~(~p.executed) THEN "Already executed"
    ELSE IF ~(Cardinality({a \in Addr : issuerUpdateApprovedBy[proposalId][a] /\ isAuthorizedIssuer[a]})
                >= issuerUpdateThreshold) THEN "Insufficient approvals"
    ELSE OK

\* the requires ahead of the first write
ExecuteGuardErr(caller, proposalId) ==
    LET p == issuerUpdateProposals[proposalId] IN
    IF OnlyOwnerErr(caller) /= OK THEN OnlyOwnerErr(caller)
    ELSE IF ~(p.action /= "None") THEN "Proposal missing"
    ELSE IF ~(~p.executed) THEN "Already executed"
    ELSE IF ~(p.approvals >= issuerUpdateThreshold) THEN "Insufficient approvals"
    ELSE OK

\* the requires of the Add and Rotate branches, read after p.executed = true
ExecuteRecheckErr(p) ==
    IF p.action = "Add" THEN
        IF ~(p.newIssuer /= Zero) THEN "Issuer zero"
        ELSE IF ~(~isAuthorizedIssuer[p.newIssuer]) THEN "Already issuer"
        ELSE OK
    ELSE IF p.action = "Rotate" THEN
        IF ~isAuthorizedIssuer[p.issuer] THEN "Not issuer"
        ELSE IF ~(p.newIssuer /= Zero) THEN "Issuer zero"
        ELSE IF ~(~isAuthorizedIssuer[p.newIssuer]) THEN "Already issuer"
        ELSE OK
    ELSE OK

ExecuteErr(caller, proposalId) ==
    IF ExecuteGuardErr(caller, proposalId) /= OK THEN ExecuteGuardErr(caller, proposalId)
    ELSE ExecuteRecheckErr([issuerUpdateProposals[proposalId] EXCEPT !.executed = TRUE])

IssuerUpdateExecuted(proposalId, action, issuer, newIssuer) ==
    [name |-> "IssuerUpdateExecuted", proposalId |-> proposalId, action |-> action,
     issuer |-> issuer, newIssuer |-> newIssuer]

\* the Add branch setting the flag without pushing onto issuerList
ApplyUpdate_AddNoList(al, p) ==
    IF p.action = "Add"
    THEN [auth |-> [al.auth EXCEPT ![p.newIssuer] = TRUE], list |-> al.list, idx |-> al.idx]
    ELSE PushIssuer(PopIssuer(al, p.issuer), p.newIssuer)

\* the Rotate branch inserting the new issuer without removing the old one
ApplyUpdate_RotateKeepsOld(al, p) ==
    IF p.action = "Add" THEN PushIssuer(al, p.newIssuer)
    ELSE PushIssuer(al, p.newIssuer)

\* the allow-list after the Add or Rotate branch
ApplyUpdate(al, p) ==
    IF p.action = "Add" THEN PushIssuer(al, p.newIssuer)
    ELSE PushIssuer(PopIssuer(al, p.issuer), p.newIssuer)

\* the events of an execution without the IssuerUpdated of the removed issuer
ExecuteEvents_NoRemoval(proposalId, p) ==
    <<IssuerUpdated(p.newIssuer, TRUE), IssuerUpdateExecuted(proposalId, p.action, p.issuer, p.newIssuer)>>

ExecuteEvents(proposalId, p) ==
    (IF p.action = "Add" THEN <<IssuerUpdated(p.newIssuer, TRUE)>>
     ELSE <<IssuerUpdated(p.issuer, FALSE), IssuerUpdated(p.newIssuer, TRUE)>>)
    \o <<IssuerUpdateExecuted(proposalId, p.action, p.issuer, p.newIssuer)>>

executeIssuerUpdate(caller, proposalId) ==
    LET p == [issuerUpdateProposals[proposalId] EXCEPT !.executed = TRUE] IN
    /\ ExecuteErr(caller, proposalId) = OK
    /\ issuerUpdateProposals' = [issuerUpdateProposals EXCEPT ![proposalId] = p]
    /\ StoreAllowList(ApplyUpdate(AllowList, p))
    /\ Done("executeIssuerUpdate", ExecuteEvents(proposalId, p))
    /\ UNCHANGED <<certVars, issuerUpdateThreshold, nextIssuerUpdateProposalId, issuerUpdateApprovedBy>>

\* a failed executeIssuerUpdate that keeps p.executed = true when a branch require fails
executeIssuerUpdateReverts_KeepsFlag(proposalId, err) ==
    IF err \in {"Issuer zero", "Already issuer", "Not issuer"}
    THEN /\ issuerUpdateProposals' = [issuerUpdateProposals EXCEPT ![proposalId].executed = TRUE]
         /\ last' = [op |-> "executeIssuerUpdate", err |-> err]
         /\ emitted' = <<>> /\ UNCHANGED webVars
         /\ UNCHANGED <<certVars, allowVars, issuerUpdateThreshold, nextIssuerUpdateProposalId,
                        issuerUpdateApprovedBy>>
    ELSE Reverted("executeIssuerUpdate", err)

\* a failed executeIssuerUpdate that discards the proposal's approvals when a branch
\* require fails
executeIssuerUpdateReverts_DropsApprovals(proposalId, err) ==
    IF err \in {"Issuer zero", "Already issuer", "Not issuer"}
    THEN /\ issuerUpdateProposals' = [issuerUpdateProposals EXCEPT ![proposalId].approvals = 0]
         /\ issuerUpdateApprovedBy' = [issuerUpdateApprovedBy EXCEPT ![proposalId] = [a \in Addr |-> FALSE]]
         /\ last' = [op |-> "executeIssuerUpdate", err |-> err]
         /\ emitted' = <<>> /\ UNCHANGED webVars
         /\ UNCHANGED <<certVars, allowVars, issuerUpdateThreshold, nextIssuerUpdateProposalId>>
    ELSE Reverted("executeIssuerUpdate", err)

\* a require failing in executeIssuerUpdate, before or after p.executed = true, reverts
\* the call: the write of the flag is discarded with it
executeIssuerUpdateReverts(proposalId, err) == Reverted("executeIssuerUpdate", err)

\* ---------------------------------------------------------- certificates
RevokeDigest(certificateId, reason, issuer, chainId) ==
    HashTypedDataV4(<<"Revoke", certificateId, reason, issuer, chainId>>)

RecoverRevokeSigner(certificateId, reason, issuer, issuerSignature) ==
    ECDSARecover(RevokeDigest(certificateId, reason, issuer, ChainId), issuerSignature)

\* issueCertificate's requires without the duplicate-pair require
IssueErr_NoDuplicateGuard(certificateId, docHash, storageURI, issuer, issuedAt, salt, issuerSignature) ==
    LET expectedId == DeriveId(docHash, salt, issuer, ChainId, issuedAt)
        rec == RecoverIssueSigner(certificateId, docHash, storageURI, issuer, issuedAt, salt, issuerSignature)
    IN
    IF ~isAuthorizedIssuer[issuer] THEN "Issuer not authorized"
    ELSE IF ~(Cert(certificateId).status = "None") THEN "Certificate exists"
    ELSE IF ~(storageURI /= "") THEN "storageURI empty"
    ELSE IF ~(issuedAt > 0) THEN "issuedAt zero"
    ELSE IF ~(expectedId = certificateId) THEN "certificateId mismatch"
    ELSE IF rec.err /= OK THEN rec.err
    ELSE IF ~(rec.signer = issuer) THEN "Invalid signature"
    ELSE OK

\* issueCertificate's requires without the comparison with the derived id
IssueErr_NoIdCheck(certificateId, docHash, storageURI, issuer, issuedAt, salt, issuerSignature) ==
    LET docIssuerKey == DocIssuerKey(docHash, issuer)
        rec == RecoverIssueSigner(certificateId, docHash, storageURI, issuer, issuedAt, salt, issuerSignature)
    IN
    IF ~isAuthorizedIssuer[issuer] THEN "Issuer not authorized"
    ELSE IF ~(Cert(certificateId).status = "None") THEN "Certificate exists"
    ELSE IF ~(storageURI /= "") THEN "storageURI empty"
    ELSE IF ~(issuedAt > 0) THEN "issuedAt zero"
    ELSE IF ~(docIssuerKey \notin issuedByDocAndIssuer) THEN "Duplicate docHash+issuer"
    ELSE IF rec.err /= OK THEN rec.err
    ELSE IF ~(rec.signer = issuer) THEN "Invalid signature"
    ELSE OK

\* issueCertificate's requires without the comparison of the recovered signer
IssueErr_NoSignerCheck(certificateId, docHash, storageURI, issuer, issuedAt, salt, issuerSignature) ==
    LET docIssuerKey == DocIssuerKey(docHash, issuer)
        expectedId == DeriveId(docHash, salt, issuer, ChainId, issuedAt)
        rec == RecoverIssueSigner(certificateId, docHash, storageURI, issuer, issuedAt, salt, issuerSignature)
    IN
    IF ~isAuthorizedIssuer[issuer] THEN "Issuer not authorized"
    ELSE IF ~(Cert(certificateId).status = "None") THEN "Certificate exists"
    ELSE IF ~(storageURI /= "") THEN "storageURI empty"
    ELSE IF ~(issuedAt > 0) THEN "issuedAt zero"
    ELSE IF ~(docIssuerKey \notin issuedByDocAndIssuer) THEN "Duplicate docHash+issuer"
    ELSE IF ~(expectedId = certificateId) THEN "certificateId mismatch"
    ELSE IF rec.err /= OK THEN rec.err
    ELSE OK

\* issueCertificate's requires with the storageURI test ahead of the existence test
IssueErr_UriBeforeExists(certificateId, docHash, storageURI, issuer, issuedAt, salt, issuerSignature) ==
    LET docIssuerKey == DocIssuerKey(docHash, issuer)
        expectedId == DeriveId(docHash, salt, issuer, ChainId, issuedAt)
        rec == RecoverIssueSigner(certificateId, docHash, storageURI, issuer, issuedAt, salt, issuerSignature)
    IN
    IF ~isAuthorizedIssuer[issuer] THEN "Issuer not authorized"
    ELSE IF ~(storageURI /= "") THEN "storageURI empty"
    ELSE IF ~(Cert(certificateId).status = "None") THEN "Certificate exists"
    ELSE IF ~(issuedAt > 0) THEN "issuedAt zero"
    ELSE IF ~(docIssuerKey \notin issuedByDocAndIssuer) THEN "Duplicate docHash+issuer"
    ELSE IF ~(expectedId = certificateId) THEN "certificateId mismatch"
    ELSE IF rec.err /= OK THEN rec.err
    ELSE IF ~(rec.signer = issuer) THEN "Invalid signature"
    ELSE OK

\* the first require of issueCertificate that fails, in the order of the code
IssueErr(certificateId, docHash, storageURI, issuer, issuedAt, salt, issuerSignature) ==
    LET docIssuerKey == DocIssuerKey(docHash, issuer)
        expectedId == DeriveId(docHash, salt, issuer, ChainId, issuedAt)
        rec == RecoverIssueSigner(certificateId, docHash, storageURI, issuer, issuedAt, salt, issuerSignature)
    IN
    IF ~isAuthorizedIssuer[issuer] THEN "Issuer not authorized"
    ELSE IF ~(Cert(certificateId).status = "None") THEN "Certificate exists"
    ELSE IF ~(storageURI /= "") THEN "storageURI empty"
    ELSE IF ~(issuedAt > 0) THEN "issuedAt zero"
    ELSE IF ~(docIssuerKey \notin issuedByDocAndIssuer) THEN "Duplicate docHash+issuer"
    ELSE IF ~(expectedId = certificateId) THEN "certificateId mismatch"
    ELSE IF rec.err /= OK THEN rec.err
    ELSE IF ~(rec.signer = issuer) THEN "Invalid signature"
    ELSE OK

CertificateIssued(certificateId, issuer, docHash, storageURI, issuedAt, salt) ==
    [name |-> "CertificateIssued", certificateId |-> certificateId, issuer |-> issuer, docHash |-> docHash,
     storageURI |-> storageURI, issuedAt |-> issuedAt, salt |-> salt]

\* the record stored without the salt
NewCertificate_DropsSalt(docHash, storageURI, issuer, issuedAt, salt, issuerSignature) ==
    [docHash |-> docHash, storageURI |-> storageURI, issuer |-> issuer, issuedAt |-> issuedAt,
     status |-> "Active", revokeReason |-> NoReason, revokedAt |-> 0,
     issuerSignature |-> issuerSignature, salt |-> "", revokeSignature |-> NoSig]

NewCertificate(docHash, storageURI, issuer, issuedAt, salt, issuerSignature) ==
    [docHash |-> docHash, storageURI |-> storageURI, issuer |-> issuer, issuedAt |-> issuedAt,
     status |-> "Active", revokeReason |-> NoReason, revokedAt |-> 0,
     issuerSignature |-> issuerSignature, salt |-> salt, revokeSignature |-> NoSig]

\* issueCertificate storing the record without marking the pair as issued
issueCertificate_NoMark(caller, certificateId, docHash, storageURI, issuer, issuedAt, salt, issuerSignature) ==
    /\ IssueErr(certificateId, docHash, storageURI, issuer, issuedAt, salt, issuerSignature) = OK
    /\ Cardinality(DOMAIN certificates) < MaxCerts
    /\ certificates' = (certificateId :> NewCertificate(docHash, storageURI, issuer, issuedAt, salt, issuerSignature))
                         @@ certificates
    /\ Done("issueCertificate", <<CertificateIssued(certificateId, issuer, docHash, storageURI, issuedAt, salt)>>)
    /\ UNCHANGED <<issuedByDocAndIssuer, allowVars, govVars>>

\* issueCertificate storing msg.sender as the issuer of the record
issueCertificate_SenderAsIssuer(caller, certificateId, docHash, storageURI, issuer, issuedAt, salt, issuerSignature) ==
    /\ IssueErr(certificateId, docHash, storageURI, issuer, issuedAt, salt, issuerSignature) = OK
    /\ Cardinality(DOMAIN certificates) < MaxCerts
    /\ certificates' = (certificateId :> NewCertificate(docHash, storageURI, caller, issuedAt, salt, issuerSignature))
                         @@ certificates
    /\ issuedByDocAndIssuer' = issuedByDocAndIssuer \cup {DocIssuerKey(docHash, issuer)}
    /\ Done("issueCertificate", <<CertificateIssued(certificateId, issuer, docHash, storageURI, issuedAt, salt)>>)
    /\ UNCHANGED <<allowVars, govVars>>

\* issueCertificate marking the pair of the document and msg.sender instead of the issuer
issueCertificate_MarksSenderPair(caller, certificateId, docHash, storageURI, issuer, issuedAt, salt, issuerSignature) ==
    /\ IssueErr(certificateId, docHash, storageURI, issuer, issuedAt, salt, issuerSignature) = OK
    /\ Cardinality(DOMAIN certificates) < MaxCerts
    /\ certificates' = (certificateId :> NewCertificate(docHash, storageURI, issuer, issuedAt, salt, issuerSignature))
                         @@ certificates
    /\ issuedByDocAndIssuer' = issuedByDocAndIssuer \cup {DocIssuerKey(docHash, caller)}
    /\ Done("issueCertificate", <<CertificateIssued(certificateId, issuer, docHash, storageURI, issuedAt, salt)>>)
    /\ UNCHANGED <<allowVars, govVars>>

issueCertificate(caller, certificateId, docHash, storageURI, issuer, issuedAt, salt, issuerSignature) ==
    /\ IssueErr(certificateId, docHash, storageURI, issuer, issuedAt, salt, issuerSignature) = OK
    /\ Cardinality(DOMAIN certificates) < MaxCerts
    /\ certificates' = (certificateId :> NewCertificate(docHash, storageURI, issuer, issuedAt, salt, issuerSignature))
                         @@ certificates
    /\ issuedByDocAndIssuer' = issuedByDocAndIssuer \cup {DocIssuerKey(docHash, issuer)}
    /\ Done("issueCertificate", <<CertificateIssued(certificateId, issuer, docHash, storageURI, issuedAt, salt)>>)
    /\ UNCHANGED <<allowVars, govVars>>

\* a failed issueCertificate that keeps the pair marked when a late require fails
issueCertificateReverts_MarksPair(docHash, issuer, err) ==
    IF err \in {"certificateId mismatch", "Invalid signature"}
    THEN /\ issuedByDocAndIssuer' = issuedByDocAndIssuer \cup {DocIssuerKey(docHash, issuer)}
         /\ last' = [op |-> "issueCertificate", err |-> err]
         /\ emitted' = <<>> /\ UNCHANGED webVars
         /\ UNCHANGED <<certificates, allowVars, govVars>>
    ELSE Reverted("issueCertificate", err)

\* a failing require of issueCertificate reverts the call: nothing is stored for the
\* certificateId and nothing is marked for the pair
issueCertificateReverts(docHash, issuer, err) == Reverted("issueCertificate", err)

\* revokeCertificate's requires without the status require
RevokeErr_NoActiveCheck(caller, certificateId, reason, issuerSignature) ==
    LET cert == Cert(certificateId)
        rec == RecoverRevokeSigner(certificateId, reason, cert.issuer, issuerSignature)
    IN
    IF ~(caller = Owner \/ caller = cert.issuer) THEN "Not authorized"
    ELSE IF ~(reason.len > 0) THEN "Reason required"
    ELSE IF ~(reason.len <= MaxReasonLen) THEN "Reason too long"
    ELSE IF ~(issuerSignature /= NoSig) THEN "Signature required"
    ELSE IF rec.err /= OK THEN rec.err
    ELSE IF ~(rec.signer = cert.issuer) THEN "Invalid revoke signature"
    ELSE OK

\* revokeCertificate's requires without the comparison of the recovered signer
RevokeErr_NoSignerCheck(caller, certificateId, reason, issuerSignature) ==
    LET cert == Cert(certificateId)
        rec == RecoverRevokeSigner(certificateId, reason, cert.issuer, issuerSignature)
    IN
    IF ~(cert.status = "Active") THEN "Not active"
    ELSE IF ~(caller = Owner \/ caller = cert.issuer) THEN "Not authorized"
    ELSE IF ~(reason.len > 0) THEN "Reason required"
    ELSE IF ~(reason.len <= MaxReasonLen) THEN "Reason too long"
    ELSE IF ~(issuerSignature /= NoSig) THEN "Signature required"
    ELSE IF rec.err /= OK THEN rec.err
    ELSE OK

\* revokeCertificate's requires without the caller require
RevokeErr_NoCallerCheck(caller, certificateId, reason, issuerSignature) ==
    LET cert == Cert(certificateId)
        rec == RecoverRevokeSigner(certificateId, reason, cert.issuer, issuerSignature)
    IN
    IF ~(cert.status = "Active") THEN "Not active"
    ELSE IF ~(reason.len > 0) THEN "Reason required"
    ELSE IF ~(reason.len <= MaxReasonLen) THEN "Reason too long"
    ELSE IF ~(issuerSignature /= NoSig) THEN "Signature required"
    ELSE IF rec.err /= OK THEN rec.err
    ELSE IF ~(rec.signer = cert.issuer) THEN "Invalid revoke signature"
    ELSE OK

\* the first require of revokeCertificate that fails, in the order of the code
\* revokeCertificate's requires with the record's issuer required to be allow-listed
RevokeErr_RequiresAuthorized(caller, certificateId, reason, issuerSignature) ==
    LET cert == Cert(certificateId)
        rec == RecoverRevokeSigner(certificateId, reason, cert.issuer, issuerSignature)
    IN
    IF ~(cert.status = "Active") THEN "Not active"
    ELSE IF ~isAuthorizedIssuer[cert.issuer] THEN "Issuer not authorized"
    ELSE IF ~(caller = Owner \/ caller = cert.issuer) THEN "Not authorized"
    ELSE IF ~(reason.len > 0) THEN "Reason required"
    ELSE IF ~(reason.len <= MaxReasonLen) THEN "Reason too long"
    ELSE IF ~(issuerSignature /= NoSig) THEN "Signature required"
    ELSE IF rec.err /= OK THEN rec.err
    ELSE IF ~(rec.signer = cert.issuer) THEN "Invalid revoke signature"
    ELSE OK

RevokeErr(caller, certificateId, reason, issuerSignature) ==
    LET cert == Cert(certificateId)
        rec == RecoverRevokeSigner(certificateId, reason, cert.issuer, issuerSignature)
    IN
    IF ~(cert.status = "Active") THEN "Not active"
    ELSE IF ~(caller = Owner \/ caller = cert.issuer) THEN "Not authorized"
    ELSE IF ~(reason.len > 0) THEN "Reason required"
    ELSE IF ~(reason.len <= MaxReasonLen) THEN "Reason too long"
    ELSE IF ~(issuerSignature /= NoSig) THEN "Signature required"
    ELSE IF rec.err /= OK THEN rec.err
    ELSE IF ~(rec.signer = cert.issuer) THEN "Invalid revoke signature"
    ELSE OK

CertificateRevoked(certificateId, issuer, reason, revokedAt) ==
    [name |-> "CertificateRevoked", certificateId |-> certificateId, issuer |-> issuer,
     reason |-> reason, revokedAt |-> revokedAt]

\* revokeCertificate storing the revoke signature in the issuerSignature field
revokeCertificate_OverwritesSignature(caller, certificateId, reason, issuerSignature, blockTimestamp) ==
    LET cert == Cert(certificateId) IN
    /\ RevokeErr(caller, certificateId, reason, issuerSignature) = OK
    /\ certificates' = [certificates EXCEPT ![certificateId] =
            [cert EXCEPT !.status = "Revoked", !.revokeReason = reason,
                         !.revokedAt = blockTimestamp, !.issuerSignature = issuerSignature]]
    /\ Done("revokeCertificate", <<CertificateRevoked(certificateId, cert.issuer, reason, blockTimestamp)>>)
    /\ UNCHANGED <<issuedByDocAndIssuer, allowVars, govVars>>

\* revokeCertificate that leaves revokedAt unset
revokeCertificate_NoTimestamp(caller, certificateId, reason, issuerSignature, blockTimestamp) ==
    LET cert == Cert(certificateId) IN
    /\ RevokeErr(caller, certificateId, reason, issuerSignature) = OK
    /\ certificates' = [certificates EXCEPT ![certificateId] =
            [cert EXCEPT !.status = "Revoked", !.revokeReason = reason, !.revokeSignature = issuerSignature]]
    /\ Done("revokeCertificate", <<CertificateRevoked(certificateId, cert.issuer, reason, cert.revokedAt)>>)
    /\ UNCHANGED <<issuedByDocAndIssuer, allowVars, govVars>>

\* revokeCertificate that also clears the pair's mark
revokeCertificate_ClearsGuard(caller, certificateId, reason, issuerSignature, blockTimestamp) ==
    LET cert == Cert(certificateId) IN
    /\ RevokeErr(caller, certificateId, reason, issuerSignature) = OK
    /\ certificates' = [certificates EXCEPT ![certificateId] =
            [cert EXCEPT !.status = "Revoked", !.revokeReason = reason,
                         !.revokedAt = blockTimestamp, !.revokeSignature = issuerSignature]]
    /\ issuedByDocAndIssuer' = issuedByDocAndIssuer \ {DocIssuerKey(cert.docHash, cert.issuer)}
    /\ Done("revokeCertificate", <<CertificateRevoked(certificateId, cert.issuer, reason, blockTimestamp)>>)
    /\ UNCHANGED <<allowVars, govVars>>

\* revokeCertificate that deletes the record
revokeCertificate_Deletes(caller, certificateId, reason, issuerSignature, blockTimestamp) ==
    LET cert == Cert(certificateId) IN
    /\ RevokeErr(caller, certificateId, reason, issuerSignature) = OK
    /\ certificates' = [id \in DOMAIN certificates \ {certificateId} |-> certificates[id]]
    /\ Done("revokeCertificate", <<CertificateRevoked(certificateId, cert.issuer, reason, blockTimestamp)>>)
    /\ UNCHANGED <<issuedByDocAndIssuer, allowVars, govVars>>

\* revokeCertificate that does not keep the revoke signature
revokeCertificate_DropsSignature(caller, certificateId, reason, issuerSignature, blockTimestamp) ==
    LET cert == Cert(certificateId) IN
    /\ RevokeErr(caller, certificateId, reason, issuerSignature) = OK
    /\ certificates' = [certificates EXCEPT ![certificateId] =
            [cert EXCEPT !.status = "Revoked", !.revokeReason = reason, !.revokedAt = blockTimestamp]]
    /\ Done("revokeCertificate", <<CertificateRevoked(certificateId, cert.issuer, reason, blockTimestamp)>>)
    /\ UNCHANGED <<issuedByDocAndIssuer, allowVars, govVars>>

revokeCertificate(caller, certificateId, reason, issuerSignature, blockTimestamp) ==
    LET cert == Cert(certificateId) IN
    /\ RevokeErr(caller, certificateId, reason, issuerSignature) = OK
    /\ certificates' = [certificates EXCEPT ![certificateId] =
            [cert EXCEPT !.status = "Revoked", !.revokeReason = reason,
                         !.revokedAt = blockTimestamp, !.revokeSignature = issuerSignature]]
    /\ Done("revokeCertificate", <<CertificateRevoked(certificateId, cert.issuer, reason, blockTimestamp)>>)
    /\ UNCHANGED <<issuedByDocAndIssuer, allowVars, govVars>>

\* ---------------------------------------------------------- transactions
\* the revert reasons the calls of one entry point can end with in this state
SetThresholdReverts == {SetThresholdErr(c, t) : c \in Callers, t \in Thresholds} \ {OK}
AddIssuerReverts == {AddIssuerErr(c, a) : c \in Callers, a \in IssuerArgs} \ {OK}
RemoveIssuerReverts == {RemoveIssuerErr(c, a) : c \in Callers, a \in IssuerArgs} \ {OK}
ProposeAddReverts == {ProposeAddErr(c, a) : c \in Callers, a \in IssuerArgs} \ {OK}
ProposeRotateReverts == {ProposeRotateErr(c, a, b) : c \in Callers, a \in IssuerArgs, b \in IssuerArgs} \ {OK}
ApproveReverts == {ApproveErr(c, p) : c \in Callers, p \in ProposalIds} \ {OK}
ExecuteReverts == {<<p, ExecuteErr(c, p)>> : c \in Callers, p \in ProposalIds} \ {<<p, OK>> : p \in ProposalIds}


\* the signatures offered to issueCertificate: empty, made over the Issue payload of the
\* call by any key, or made by the issuer for another chain
SigKinds == Callers \cup {"none", "otherchain"}

IssueSig(kind, certificateId, docHash, storageURI, issuer, issuedAt, salt) ==
    IF kind = "none" THEN NoSig
    ELSE IF kind = "otherchain"
    THEN Sign(issuer, IssueDigest(certificateId, docHash, storageURI, issuer, issuedAt, OtherChainId, salt))
    ELSE Sign(kind, IssueDigest(certificateId, docHash, storageURI, issuer, issuedAt, ChainId, salt))

\* the certificateId offered: derived from the arguments, or from them under another salt
IssueId(docHash, idSalt, issuer, issuedAt) == DeriveId(docHash, idSalt, issuer, ChainId, issuedAt)

IssueOutcome(d, idSalt, u, i, t, s, k) ==
    IssueErr(IssueId(d, idSalt, i, t), d, u, i, t, s, IssueSig(k, IssueId(d, idSalt, i, t), d, u, i, t, s))

\* the signatures offered to revokeCertificate: empty, made over the Revoke payload of
\* the call by any key, or made by the record's issuer over another reason or another id
RevokeSigKinds == Callers \cup {"none", "otherreason", "otherid"}
UnissuedId == DeriveId("h1", "s1", Owner, ChainId, 1)
OtherReason(reason) == IF reason.text = "error" THEN [text |-> "expired", len |-> 7] ELSE [text |-> "error", len |-> 5]

RevokeSig(kind, certificateId, reason) ==
    LET issuer == Cert(certificateId).issuer IN
    IF kind = "none" THEN NoSig
    ELSE IF kind = "otherreason"
    THEN Sign(issuer, RevokeDigest(certificateId, OtherReason(reason), issuer, ChainId))
    ELSE IF kind = "otherid"
    THEN Sign(issuer, RevokeDigest(UnissuedId, reason, issuer, ChainId))
    ELSE Sign(kind, RevokeDigest(certificateId, reason, issuer, ChainId))

\* the ids offered to revokeCertificate: every id stored and one never issued
RevokeIds == DOMAIN certificates \cup {UnissuedId}

RevokeOutcome(c, id, r, k) == RevokeErr(c, id, r, RevokeSig(k, id, r))

\* one transaction calling issueCertificate for a document, an issuer and a salt of the
\* sets given: it runs to its end or reverts
issueCertificateTxOf(docHashes, issuers, salts) ==
    \/ \E d \in docHashes, idSalt \in Salts, u \in URIs, i \in issuers, t \in IssuedAts, s \in salts, k \in SigKinds :
          /\ IssueOutcome(d, idSalt, u, i, t, s, k) = OK
          /\ \E c \in Callers :
                issueCertificate(c, IssueId(d, idSalt, i, t), d, u, i, t, s,
                                 IssueSig(k, IssueId(d, idSalt, i, t), d, u, i, t, s))
    \/ \E d \in docHashes, i \in issuers :
          \E err \in {IssueOutcome(d, idSalt, u, i, t, s, k) :
                        idSalt \in Salts, u \in URIs, t \in IssuedAts, s \in salts, k \in SigKinds} \ {OK} :
             issueCertificateReverts(d, i, err)

\* one transaction calling issueCertificate
issueCertificateTx == issueCertificateTxOf(DocHashes, CertIssuers, Salts)

\* one transaction calling revokeCertificate
revokeCertificateTx ==
    \/ \E c \in Callers, id \in RevokeIds, r \in Reasons, k \in RevokeSigKinds, t \in Times :
          revokeCertificate(c, id, r, RevokeSig(k, id, r), t)
    \/ \E err \in {RevokeOutcome(c, id, r, k) :
                        c \in Callers, id \in RevokeIds, r \in Reasons, k \in RevokeSigKinds} \ {OK} :
          Reverted("revokeCertificate", err)

NextAllow ==
    \/ \E c \in Callers, a \in IssuerArgs : addIssuer(c, a)
    \/ \E err \in AddIssuerReverts : Reverted("addIssuer", err)
    \/ \E c \in Callers, a \in IssuerArgs : removeIssuer(c, a)
    \/ \E err \in RemoveIssuerReverts : Reverted("removeIssuer", err)

NextGov ==
    \/ NextAllow
    \/ \E c \in Callers, t \in Thresholds : setIssuerUpdateThreshold(c, t)
    \/ \E err \in SetThresholdReverts : Reverted("setIssuerUpdateThreshold", err)
    \/ \E c \in Callers, a \in IssuerArgs, t \in Times : proposeAddIssuer(c, a, t)
    \/ \E err \in ProposeAddReverts : Reverted("proposeAddIssuer", err)
    \/ \E c \in Callers, a \in IssuerArgs, b \in IssuerArgs, t \in Times : proposeRotateIssuer(c, a, b, t)
    \/ \E err \in ProposeRotateReverts : Reverted("proposeRotateIssuer", err)
    \/ \E c \in Callers, p \in ProposalIds : approveIssuerUpdate(c, p)
    \/ \E err \in ApproveReverts : Reverted("approveIssuerUpdate", err)
    \/ \E c \in Callers, p \in ProposalIds : executeIssuerUpdate(c, p)
    \/ \E pe \in ExecuteReverts : executeIssuerUpdateReverts(pe[1], pe[2])

\* the certificate calls next to the allow-list calls that name CertAllowed: the other
\* address offered as issuer of a certificate is never authorized
CertAllowed == "a"

NextCert ==
    \/ \E c \in Callers : addIssuer(c, CertAllowed)
    \/ \E c \in Callers :
          AddIssuerErr(c, CertAllowed) /= OK /\ Reverted("addIssuer", AddIssuerErr(c, CertAllowed))
    \/ \E c \in Callers : removeIssuer(c, CertAllowed)
    \/ \E c \in Callers :
          RemoveIssuerErr(c, CertAllowed) /= OK /\ Reverted("removeIssuer", RemoveIssuerErr(c, CertAllowed))
    \/ issueCertificateTx
    \/ revokeCertificateTx

Next == NextGov \/ NextCert

\* the calls that write the allow-list, with every address (the owner's and the zero
\* address included) as issuer argument and a single proposal slot
MaxListProposals == 1

NextList ==
    \/ \E c \in Callers, a \in Addr : addIssuer(c, a)
    \/ \E c \in Callers, a \in Addr : AddIssuerErr(c, a) /= OK /\ Reverted("addIssuer", AddIssuerErr(c, a))
    \/ \E c \in Callers, a \in Addr : removeIssuer(c, a)
    \/ \E c \in Callers, a \in Addr : RemoveIssuerErr(c, a) /= OK /\ Reverted("removeIssuer", RemoveIssuerErr(c, a))
    \/ \E c \in Callers, a \in Addr, t \in Times :
          nextIssuerUpdateProposalId <= MaxListProposals /\ proposeAddIssuer(c, a, t)
    \/ \E c \in Callers, a \in Addr :
          ProposeAddErr(c, a) /= OK /\ Reverted("proposeAddIssuer", ProposeAddErr(c, a))
    \/ \E c \in Callers, a \in Addr, b \in Addr, t \in Times :
          nextIssuerUpdateProposalId <= MaxListProposals /\ proposeRotateIssuer(c, a, b, t)
    \/ \E c \in Callers, a \in Addr, b \in Addr :
          ProposeRotateErr(c, a, b) /= OK /\ Reverted("proposeRotateIssuer", ProposeRotateErr(c, a, b))
    \/ \E c \in Callers, p \in ProposalIds : approveIssuerUpdate(c, p)
    \/ \E c \in Callers, p \in ProposalIds :
          ApproveErr(c, p) /= OK /\ Reverted("approveIssuerUpdate", ApproveErr(c, p))
    \/ \E c \in Callers, p \in ProposalIds : executeIssuerUpdate(c, p)
    \/ \E c \in Callers, p \in ProposalIds :
          ExecuteErr(c, p) /= OK /\ executeIssuerUpdateReverts(p, ExecuteErr(c, p))

SpecList == Init /\ [][NextList]_vars
\* the issuance of a single certificate, for one document under one salt by one issuer
MaxMixedCerts == 1
AuditDocHashes == {"h1"}
AuditSalts == {"s1"}
AuditIssuers == {"a"}

issueOneCertificateTx ==
    /\ issueCertificateTxOf(AuditDocHashes, AuditIssuers, AuditSalts)
    /\ Cardinality(DOMAIN certificates') <= MaxMixedCerts

\* the certificate calls together with the calls that remove or rotate an issuer, with a
\* single proposal slot and a single certificate
NextMixed ==
    \/ NextAllow
    \/ \E c \in Callers, a \in IssuerArgs, b \in IssuerArgs, t \in Times :
          nextIssuerUpdateProposalId <= MaxListProposals /\ proposeRotateIssuer(c, a, b, t)
    \/ \E c \in Callers, p \in ProposalIds : approveIssuerUpdate(c, p)
    \/ \E c \in Callers, p \in ProposalIds : executeIssuerUpdate(c, p)
    \/ issueOneCertificateTx
    \/ revokeCertificateTx

SpecMixed == Init /\ [][NextMixed]_vars

\* the allow-list, threshold and proposal calls with a single proposal slot
NextGovOne ==
    \/ NextAllow
    \/ \E c \in Callers, t \in Thresholds : setIssuerUpdateThreshold(c, t)
    \/ \E err \in SetThresholdReverts : Reverted("setIssuerUpdateThreshold", err)
    \/ \E c \in Callers, a \in IssuerArgs, t \in Times :
          nextIssuerUpdateProposalId <= MaxListProposals /\ proposeAddIssuer(c, a, t)
    \/ \E err \in ProposeAddReverts : Reverted("proposeAddIssuer", err)
    \/ \E c \in Callers, a \in IssuerArgs, b \in IssuerArgs, t \in Times :
          nextIssuerUpdateProposalId <= MaxListProposals /\ proposeRotateIssuer(c, a, b, t)
    \/ \E err \in ProposeRotateReverts : Reverted("proposeRotateIssuer", err)
    \/ \E c \in Callers, p \in ProposalIds : approveIssuerUpdate(c, p)
    \/ \E err \in ApproveReverts : Reverted("approveIssuerUpdate", err)
    \/ \E c \in Callers, p \in ProposalIds : executeIssuerUpdate(c, p)
    \/ \E pe \in ExecuteReverts : executeIssuerUpdateReverts(pe[1], pe[2])

SpecGovOne == Init /\ [][NextGovOne]_vars

\* every state-changing entry point of the registry, with a single proposal slot and a
\* single certificate
NextAudit ==
    \/ NextGovOne
    \/ issueOneCertificateTx
    \/ revokeCertificateTx

SpecAudit == Init /\ [][NextAudit]_vars

SpecGov == Init /\ [][NextGov]_vars
SpecCert == Init /\ [][NextCert]_vars
Spec == Init /\ [][Next]_vars

\* ------------------------------------------------------ admin login (web)
MaxNow == 7
MaxNonces == 2
\* expiryMs(5): the lifetime of a nonce in minutes
NonceTtl == 5

Wallets == {Owner, "a"}
\* an address as text: the checksummed form ethers returns, or all lower case
AddressForms == {"checksum", "lower"}
Address(w, form) == [wallet |-> w, form |-> form]
ToLowerCase(address) == [address EXCEPT !.form = "lower"]

\* generateNonce: 128 random bits, taken never to repeat
generateNonce == nextNonce
expiryMs(minutes) == now + minutes

\* loginMessage(nonce): the text to sign, which carries the nonce
loginMessage(nonce) == <<"login", nonce>>
\* the EIP-191 digest of a message
HashMessage(message) == <<"Ethereum Signed Message", message>>

Malformed == [signer |-> Zero, digest |-> <<"malformed">>]
\* ethers.verifyMessage: throws on bytes that are no signature, else the checksummed
\* address of the key that signed this message, else an unrelated address
verifyMessage(message, signature) ==
    IF signature = Malformed THEN [err |-> "throw", address |-> Address(Junk, "checksum")]
    ELSE IF signature.digest = HashMessage(message)
    THEN [err |-> OK, address |-> Address(signature.signer, "checksum")]
    ELSE [err |-> OK, address |-> Address(Junk, "checksum")]

\* the bodies offered to the verify route: no JSON, or JSON with or without an address
\* and a signature; the signatures are malformed or made by a wallet over the login
\* message of some nonce
LoginSignatures == {Malformed} \cup {Sign(w, HashMessage(loginMessage(n))) : w \in Wallets, n \in 1..MaxNonces}
VerifyBodies ==
    {NoRequest} \cup
    [json : {TRUE},
     address : {Undefined} \cup {Some(Address(w, f)) : w \in Wallets, f \in AddressForms},
     signature : {Undefined} \cup {Some(sig) : sig \in LoginSignatures}]

\* GET /api/auth/nonce
requestNonce ==
    /\ nextNonce <= MaxNonces
    /\ session' = [session EXCEPT !.nonce = Some(generateNonce),
                                  !.nonceExpiresAt = Some(expiryMs(NonceTtl)),
                                  !.authenticated = Some(FALSE)]
    /\ nextNonce' = nextNonce + 1
    /\ request' = NoRequest
    /\ last' = [op |-> "nonce", err |-> OK]
    /\ emitted' = <<>>
    /\ UNCHANGED <<stateVars, now>>

\* the verify route accepting whatever address is submitted
VerifyErr_NoAddressCheck(body) ==
    IF ~body.json THEN "Invalid JSON"
    ELSE IF body.address = Undefined \/ body.signature = Undefined THEN "address and signature required"
    ELSE IF session.nonce = Undefined \/ session.nonceExpiresAt = Undefined \/ session.nonceExpiresAt = Some(0)
    THEN "Nonce missing"
    ELSE IF now > session.nonceExpiresAt[1] THEN "Nonce expired"
    ELSE IF verifyMessage(loginMessage(session.nonce[1]), body.signature[1]).err /= OK
    THEN "Signature verification failed"
    ELSE OK

\* the error of the first test of POST /api/auth/verify that fails
VerifyErr(body) ==
    IF ~body.json THEN "Invalid JSON"
    ELSE IF body.address = Undefined \/ body.signature = Undefined THEN "address and signature required"
    ELSE IF session.nonce = Undefined \/ session.nonceExpiresAt = Undefined \/ session.nonceExpiresAt = Some(0)
    THEN "Nonce missing"
    ELSE IF now > session.nonceExpiresAt[1] THEN "Nonce expired"
    ELSE IF verifyMessage(loginMessage(session.nonce[1]), body.signature[1]).err /= OK
    THEN "Signature verification failed"
    ELSE IF ToLowerCase(verifyMessage(loginMessage(session.nonce[1]), body.signature[1]).address)
                /= ToLowerCase(body.address[1])
    THEN "Address mismatch"
    ELSE OK

\* the session a verify request saves: none on most failures, the nonce cleared on
\* expiry, the wallet authenticated on success
VerifySession(body) ==
    IF VerifyErr(body) = "Nonce expired"
    THEN [session EXCEPT !.nonce = Undefined, !.nonceExpiresAt = Undefined, !.authenticated = Some(FALSE)]
    ELSE IF VerifyErr(body) = OK
    THEN [session EXCEPT
            !.walletAddress = Some(verifyMessage(loginMessage(session.nonce[1]), body.signature[1]).address),
            !.authenticated = Some(TRUE), !.nonce = Undefined, !.nonceExpiresAt = Undefined]
    ELSE session

\* a successful verify that leaves the nonce in the session
verify_KeepsNonce(body) ==
    /\ session' = IF VerifyErr(body) = OK
                  THEN [VerifySession(body) EXCEPT !.nonce = session.nonce,
                                                   !.nonceExpiresAt = session.nonceExpiresAt]
                  ELSE VerifySession(body)
    /\ request' = body
    /\ last' = [op |-> "verify", err |-> VerifyErr(body)]
    /\ emitted' = <<>>
    /\ UNCHANGED <<stateVars, now, nextNonce>>

\* POST /api/auth/verify
verify(body) ==
    /\ session' = VerifySession(body)
    /\ request' = body
    /\ last' = [op |-> "verify", err |-> VerifyErr(body)]
    /\ emitted' = <<>>
    /\ UNCHANGED <<stateVars, now, nextNonce>>

\* a minute passes on the server clock
Tick ==
    /\ now < MaxNow
    /\ now' = now + 1
    /\ UNCHANGED <<stateVars, last, emitted, session, nextNonce, request>>

NextLogin ==
    \/ requestNonce
    \/ \E body \in VerifyBodies : verify(body)
    \/ Tick

SpecLogin == Init /\ [][NextLogin]_vars

\* ------------------------------------------------- adding an issuer (web)
\* the bodies offered to POST /api/issuers/add: the new issuer is missing, is no address,
\* or is an address; the private key is missing or that of a wallet
NotAnAddress == "not an address"
IssuersAddBodies ==
    [newIssuer : {Undefined, Some(NotAnAddress)} \cup {Some(a) : a \in IssuerArgs},
     adminPrivateKey : {Undefined} \cup {Some(w) : w \in Wallets}]

\* the answers of the route ahead of the first contract call, in the order of its
\* checks (RPC_URL is configured, a private key given is that of a wallet)
IssuersAddErr(body) ==
    IF session.authenticated /= Some(TRUE) \/ session.walletAddress = Undefined THEN "Unauthorized"
    ELSE IF body.newIssuer = Undefined \/ body.adminPrivateKey = Undefined THEN "Missing required fields"
    ELSE IF body.newIssuer = Some(NotAnAddress) THEN "Invalid newIssuer address"
    ELSE IF ToLowerCase(Address(body.adminPrivateKey[1], "checksum")) /= ToLowerCase(session.walletAddress[1])
    THEN "Admin wallet does not match authenticated session"
    ELSE OK

\* contract.getIssuers() as the route sees it: the list, or the empty list when the read
\* throws
ReadIssuers(readFails) == IF readFails THEN <<>> ELSE issuerList

\* POST /api/issuers/add: with no issuer read from the contract the wallet sends
\* addIssuer, otherwise proposeAddIssuer; a reverted call is answered with its error
issuersAddRoute(body, readFails, blockTimestamp) ==
    IF IssuersAddErr(body) /= OK THEN Reverted("issuers/add", IssuersAddErr(body))
    ELSE LET wallet == body.adminPrivateKey[1]
             newIssuer == body.newIssuer[1]
         IN  IF Len(ReadIssuers(readFails)) = 0
             THEN IF AddIssuerErr(wallet, newIssuer) = OK
                  THEN addIssuer(wallet, newIssuer)
                  ELSE Reverted("addIssuer", AddIssuerErr(wallet, newIssuer))
             ELSE IF ProposeAddErr(wallet, newIssuer) = OK
                  THEN /\ nextIssuerUpdateProposalId <= MaxProposals
                       /\ proposeAddIssuer(wallet, newIssuer, blockTimestamp)
                  ELSE Reverted("proposeAddIssuer", ProposeAddErr(wallet, newIssuer))

\* the logins offered: a wallet signing the login message of the pending nonce
BootBodies ==
    {[json |-> TRUE, address |-> Some(Address(w, "checksum")),
      signature |-> Some(Sign(w, HashMessage(loginMessage(nextNonce - 1))))] : w \in Wallets}

\* the registry driven through the admin application: login, the add route, and the
\* contract's removeIssuer, approveIssuerUpdate and executeIssuerUpdate
NextBoot ==
    \/ requestNonce
    \/ \E body \in BootBodies : verify(body)
    \/ \E body \in IssuersAddBodies, readFails \in BOOLEAN, t \in Times : issuersAddRoute(body, readFails, t)
    \/ \E c \in Callers, a \in IssuerArgs : removeIssuer(c, a)
    \/ \E err \in RemoveIssuerReverts : Reverted("removeIssuer", err)
    \/ \E c \in Callers, p \in ProposalIds : approveIssuerUpdate(c, p)
    \/ \E err \in ApproveReverts : Reverted("approveIssuerUpdate", err)
    \/ \E c \in Callers, p \in ProposalIds : executeIssuerUpdate(c, p)
    \/ \E pe \in ExecuteReverts : executeIssuerUpdateReverts(pe[1], pe[2])

SpecBoot == Init /\ [][NextBoot]_vars

\* ------------------------------------------------- steps of a specification
\* P holds on every step NextCert can take from the state
EveryCertStep(P) == ~ENABLED (NextCert /\ vars' /= vars /\ ~P)

\* P holds on every step NextGovOne can take from the state
EveryGovOneStep(P) == ~ENABLED (NextGovOne /\ vars' /= vars /\ ~P)

\* P holds on every step NextGov can take from the state
EveryGovStep(P) == ~ENABLED (NextGov /\ vars' /= vars /\ ~P)

\* P holds on every step NextList can take from the state
EveryListStep(P) == ~ENABLED (NextList /\ vars' /= vars /\ ~P)

\* P holds on every step NextMixed can take from the state
EveryMixedStep(P) == ~ENABLED (NextMixed /\ vars' /= vars /\ ~P)

\* P holds on every step NextAudit can take from the state
EveryAuditStep(P) == ~ENABLED (NextAudit /\ vars' /= vars /\ ~P)

\* P holds on every step NextLogin can take from the state
EveryLoginStep(P) == ~ENABLED (NextLogin /\ vars' /= vars /\ ~P)

\* ================================================================ claims
Stored == DOMAIN certificates
Live(c) == c.status \in {"Active", "Revoked"}
PairIssued(docHash, issuer) ==
    \E id \in Stored : certificates[id].docHash = docHash /\ certificates[id].issuer = issuer /\ Live(certificates[id])
IssueOk == last' = [op |-> "issueCertificate", err |-> OK]
IssueFailed == last'.op = "issueCertificate" /\ last'.err /= OK
RevokeOk == last' = [op |-> "revokeCertificate", err |-> OK]

\* C1: for every (docHash, issuer) pair at most one certificateId holds a record with
\* that docHash and issuer and status Active or Revoked, in every reachable state.
C1_AtMostOnePerPair ==
    \A id1 \in Stored, id2 \in Stored :
        ( /\ Live(certificates[id1]) /\ Live(certificates[id2])
          /\ certificates[id1].docHash = certificates[id2].docHash
          /\ certificates[id1].issuer = certificates[id2].issuer ) => id1 = id2

C1_Witness ==
    /\ Cardinality(Stored) = 2
    /\ last = [op |-> "issueCertificate", err |-> "Duplicate docHash+issuer"]

\* C2 as stated: every issueCertificate call for a pair already issued fails with the
\* duplicate/exists rejection, whatever its other arguments.
C2_Original ==
    \A d \in DocHashes, idSalt \in Salts, u \in URIs, i \in CertIssuers, t \in IssuedAts, s \in Salts, k \in SigKinds :
        PairIssued(d, i) =>
            IssueOutcome(d, idSalt, u, i, t, s, k) \in {"Duplicate docHash+issuer", "Certificate exists"}

C2_RejectedInState ==
    \A d \in DocHashes, idSalt \in Salts, u \in URIs, i \in CertIssuers, t \in IssuedAts, s \in Salts, k \in SigKinds :
        PairIssued(d, i) =>
            /\ IssueOutcome(d, idSalt, u, i, t, s, k) /= OK
            /\ (isAuthorizedIssuer[i] /\ u /= "" /\ t > 0) =>
                 IssueOutcome(d, idSalt, u, i, t, s, k) \in {"Duplicate docHash+issuer", "Certificate exists"}
            /\ (isAuthorizedIssuer[i] /\ Cert(IssueId(d, idSalt, i, t)).status = "None" /\ u /= "" /\ t > 0) =>
                 IssueOutcome(d, idSalt, u, i, t, s, k) = "Duplicate docHash+issuer"

\* what C2 asks of every step
C2_Step ==
    /\ IssueFailed => UNCHANGED stateVars
    /\ IssueOk => \A id \in DOMAIN certificates' \ Stored :
                     ~PairIssued(certificates'[id].docHash, certificates'[id].issuer)

\* C2 (amended): an issueCertificate call for a pair already issued always fails and
\* leaves the state unchanged; the failure is the duplicate/exists rejection whenever the
\* checks ahead of the guard pass (issuer allow-listed at call time, storageURI non-empty,
\* issuedAt > 0), also under another salt and certificateId, and is the earlier check's
\* rejection otherwise; no successful issuance is for a pair issued before.
C2_SecondIssueFails ==
    /\ C2_RejectedInState
    /\ EveryCertStep(C2_Step)

C2_Witness ==
    /\ last = [op |-> "issueCertificate", err |-> "Duplicate docHash+issuer"]
    /\ \E id \in Stored : isAuthorizedIssuer[certificates[id].issuer]
    /\ Cardinality(Stored) = 1

\* C3: the duplicate guard is never cleared; once a pair's certificate is revoked no
\* issueCertificate for that pair succeeds; and the guard is set for a pair exactly when
\* a record with that docHash and issuer and status Active or Revoked exists.
C3_GuardMatchesRecords ==
    /\ \A key \in issuedByDocAndIssuer :
          \E id \in Stored : DocIssuerKey(certificates[id].docHash, certificates[id].issuer) = key /\ Live(certificates[id])
    /\ \A id \in Stored :
          Live(certificates[id]) => DocIssuerKey(certificates[id].docHash, certificates[id].issuer) \in issuedByDocAndIssuer

C3_NoReissueAfterRevoke ==
    \A id \in Stored : certificates[id].status = "Revoked" =>
        \A idSalt \in Salts, u \in URIs, t \in IssuedAts, s \in Salts, k \in SigKinds :
            IssueOutcome(certificates[id].docHash, idSalt, u, certificates[id].issuer, t, s, k) /= OK

\* what C3 asks of every step
C3_Step ==
    issuedByDocAndIssuer \subseteq issuedByDocAndIssuer'

C3_GuardPermanent ==
    /\ C3_GuardMatchesRecords /\ C3_NoReissueAfterRevoke
    /\ EveryCertStep(C3_Step)

C3_Witness ==
    /\ Cardinality(Stored) = 1
    /\ \A id \in Stored : certificates[id].status = "Revoked" /\ isAuthorizedIssuer[certificates[id].issuer]
    /\ last = [op |-> "issueCertificate", err |-> "Duplicate docHash+issuer"]

\* C4: in every step a record's status stays the same, or moves None -> Active in a
\* successful issueCertificate, or Active -> Revoked in a successful revokeCertificate;
\* no record is deleted.
C4_StatusStep(id) ==
    \/ Cert(id)'.status = Cert(id).status
    \/ Cert(id).status = "None" /\ Cert(id)'.status = "Active" /\ IssueOk
    \/ Cert(id).status = "Active" /\ Cert(id)'.status = "Revoked" /\ RevokeOk

\* what C4 asks of every step
C4_Step ==
    /\ Stored \subseteq DOMAIN certificates'
    /\ \A id \in DOMAIN certificates' : C4_StatusStep(id)

C4_StatusMonotonic ==
    EveryCertStep(C4_Step)

C4_Witness ==
    /\ last = [op |-> "revokeCertificate", err |-> OK]
    /\ \E id \in Stored : certificates[id].status = "Revoked"
    /\ \E id \in Stored : certificates[id].status = "Active"

\* C5: for an issueCertificate call whose other preconditions hold (no record at the id,
\* storageURI non-empty, issuedAt > 0, pair not issued, id equal to the derived id) the
\* call succeeds iff the signer recovered from issuerSignature over the Issue payload is
\* the supplied issuer and that issuer is allow-listed at call time; every issuance that
\* succeeded carries such a signature of an issuer allow-listed in the state it was made in.
SignedByIssuer(certificateId, docHash, storageURI, issuer, issuedAt, salt, sig) ==
    RecoverIssueSigner(certificateId, docHash, storageURI, issuer, issuedAt, salt, sig) = [err |-> OK, signer |-> issuer]

C5_GateInState ==
    \A d \in DocHashes, u \in URIs, i \in CertIssuers, t \in IssuedAts, s \in Salts, k \in SigKinds :
        LET id == DeriveId(d, s, i, ChainId, t) IN
        ( /\ Cert(id).status = "None" /\ u /= "" /\ t > 0
          /\ DocIssuerKey(d, i) \notin issuedByDocAndIssuer ) =>
            ( IssueOutcome(d, s, u, i, t, s, k) = OK
                <=> ( /\ SignedByIssuer(id, d, u, i, t, s, IssueSig(k, id, d, u, i, t, s))
                      /\ isAuthorizedIssuer[i] ) )

\* what C5 asks of every step
C5_Step ==
    IssueOk => \A id \in DOMAIN certificates' \ Stored :
         LET c == certificates'[id] IN
         /\ isAuthorizedIssuer[c.issuer]
         /\ SignedByIssuer(id, c.docHash, c.storageURI, c.issuer, c.issuedAt, c.salt, c.issuerSignature)

C5_SignatureGate ==
    /\ C5_GateInState
    /\ EveryCertStep(C5_Step)

C5_Witness ==
    /\ last = [op |-> "issueCertificate", err |-> "Invalid signature"]
    /\ Stored /= {}
    /\ \E a \in CertIssuers : isAuthorizedIssuer[a]
    /\ \E a \in CertIssuers : ~isAuthorizedIssuer[a]

\* C10: an issueCertificate call with a failing precondition (issuer not allow-listed,
\* record present, empty storageURI, issuedAt = 0, duplicate pair, certificateId
\* mismatch, signature not by the issuer) fails, and the failed call leaves certificates,
\* the duplicate guard, the allow-list and all proposals as they were and emits no event.
C10_FailsInState ==
    \A d \in DocHashes, idSalt \in Salts, u \in URIs, i \in CertIssuers, t \in IssuedAts, s \in Salts, k \in SigKinds :
        LET id == IssueId(d, idSalt, i, t) IN
        ( \/ ~isAuthorizedIssuer[i] \/ Cert(id).status /= "None" \/ u = "" \/ t = 0
          \/ DocIssuerKey(d, i) \in issuedByDocAndIssuer
          \/ id /= DeriveId(d, s, i, ChainId, t)
          \/ ~SignedByIssuer(id, d, u, i, t, s, IssueSig(k, id, d, u, i, t, s)) ) =>
            IssueOutcome(d, idSalt, u, i, t, s, k) /= OK

\* what C10 asks of every step
C10_Step ==
    IssueFailed => (UNCHANGED stateVars /\ emitted' = <<>>)

C10_FailAtomic ==
    /\ C10_FailsInState
    /\ EveryCertStep(C10_Step)

C10_Witness ==
    /\ last = [op |-> "issueCertificate", err |-> "certificateId mismatch"]
    /\ Stored /= {}

\* ------------------------------------------------------ governance claims
Pending(p) == issuerUpdateProposals[p].action /= "None" /\ ~issuerUpdateProposals[p].executed
Approved(p) == issuerUpdateProposals[p].approvals >= issuerUpdateThreshold
\* what the Add and Rotate branches require of the allow-list
StillValid(p) ==
    LET q == issuerUpdateProposals[p] IN
    IF q.action = "Add" THEN q.newIssuer /= Zero /\ ~isAuthorizedIssuer[q.newIssuer]
    ELSE isAuthorizedIssuer[q.issuer] /\ q.newIssuer /= Zero /\ ~isAuthorizedIssuer[q.newIssuer]
ExecuteOk == last' = [op |-> "executeIssuerUpdate", err |-> OK]
ExecuteFailed == last'.op = "executeIssuerUpdate" /\ last'.err /= OK
ApproveOk == last' = [op |-> "approveIssuerUpdate", err |-> OK]
ApproveFailed == last'.op = "approveIssuerUpdate" /\ last'.err /= OK

\* C6 as stated: the owner's executeIssuerUpdate on an existing, unexecuted proposal
\* succeeds iff its approvals are at least the threshold in force at the call.
C6_Original ==
    \A p \in ProposalIds : Pending(p) => (ExecuteErr(Owner, p) = OK <=> Approved(p))

C6_ThresholdInState ==
    \A p \in ProposalIds : Pending(p) =>
        /\ ExecuteErr(Owner, p) = OK <=> (Approved(p) /\ StillValid(p))
        /\ ~Approved(p) => ExecuteErr(Owner, p) = "Insufficient approvals"

\* what C6 asks of every step
C6_Step ==
    ExecuteOk => \E p \in ProposalIds :
         /\ Pending(p) /\ Approved(p) /\ StillValid(p)
         /\ issuerUpdateProposals'[p].executed

\* C6 (amended): the owner's executeIssuerUpdate on an existing, unexecuted proposal
\* succeeds iff its approvals are at least the threshold in force at the call and the
\* proposal's action is still valid against the allow-list (Add: newIssuer not
\* authorized; Rotate: issuer authorized and newIssuer not); with fewer approvals it fails
\* with 'Insufficient approvals'; every execution that succeeded was of such a proposal.
C6_ThresholdAtExecute ==
    /\ C6_ThresholdInState
    /\ EveryGovOneStep(C6_Step)

C6_Witness ==
    /\ last = [op |-> "executeIssuerUpdate", err |-> OK]
    /\ issuerUpdateThreshold = 2
    /\ \E p \in ProposalIds : issuerUpdateProposals[p].executed /\ issuerUpdateProposals[p].approvals = 2

\* C7 as stated: a second approveIssuerUpdate by an approver of the proposal is rejected
\* with 'Already approved' in every state.
C7_Original ==
    \A p \in ProposalIds, a \in Callers :
        issuerUpdateApprovedBy[p][a] => ApproveErr(a, p) = "Already approved"

C7_SecondRejectedInState ==
    \A p \in ProposalIds, a \in Callers : issuerUpdateApprovedBy[p][a] =>
        /\ ApproveErr(a, p) \in {"Issuer not authorized", "Already executed", "Already approved"}
        /\ (isAuthorizedIssuer[a] /\ ~issuerUpdateProposals[p].executed) => ApproveErr(a, p) = "Already approved"
        /\ ~isAuthorizedIssuer[a] => ApproveErr(a, p) = "Issuer not authorized"

\* what C7 asks of every step
C7_Step ==
    /\ ApproveFailed => UNCHANGED stateVars
    /\ \A p \in ProposalIds :
         ( \/ issuerUpdateProposals'[p].approvals /= issuerUpdateProposals[p].approvals
           \/ issuerUpdateApprovedBy'[p] /= issuerUpdateApprovedBy[p] ) =>
             /\ ApproveOk
             /\ issuerUpdateProposals'[p].approvals = issuerUpdateProposals[p].approvals + 1
             /\ \E a \in Callers :
                  /\ ~issuerUpdateApprovedBy[p][a]
                  /\ issuerUpdateApprovedBy'[p] = [issuerUpdateApprovedBy[p] EXCEPT ![a] = TRUE]

\* C7 (amended): the first approveIssuerUpdate of an approver raises the proposal's
\* approvals by exactly 1 and records the approver; every later one by the same approver
\* is rejected and leaves the approvals unchanged, with 'Already approved' while the
\* approver is still authorized and the proposal unexecuted, with 'Issuer not authorized'
\* once the approver has left the allow-list and with 'Already executed' once the
\* proposal has been executed.
C7_OneApprovalPerApprover ==
    /\ C7_SecondRejectedInState
    /\ EveryGovOneStep(C7_Step)

C7_Witness ==
    /\ last = [op |-> "approveIssuerUpdate", err |-> "Already approved"]
    /\ \E p \in ProposalIds : Pending(p) /\ issuerUpdateProposals[p].approvals = 1

\* C8 as stated: once a proposal is executed, every executeIssuerUpdate and
\* approveIssuerUpdate on it fails with 'Already executed'.
C8_Original ==
    \A p \in ProposalIds : issuerUpdateProposals[p].executed =>
        \A c \in Callers : ExecuteErr(c, p) = "Already executed" /\ ApproveErr(c, p) = "Already executed"

C8_RejectedInState ==
    \A p \in ProposalIds : issuerUpdateProposals[p].executed =>
        \A c \in Callers :
            /\ ExecuteErr(c, p) = (IF c = Owner THEN "Already executed" ELSE "OwnableUnauthorizedAccount")
            /\ ApproveErr(c, p) = (IF isAuthorizedIssuer[c] THEN "Already executed" ELSE "Issuer not authorized")

\* what C8 asks of every step
C8_Step ==
    /\ \A p \in ProposalIds : issuerUpdateProposals[p].executed =>
         /\ issuerUpdateProposals'[p] = issuerUpdateProposals[p]
         /\ issuerUpdateApprovedBy'[p] = issuerUpdateApprovedBy[p]
    /\ ExecuteOk => \E p \in ProposalIds :
         /\ ~issuerUpdateProposals[p].executed /\ issuerUpdateProposals'[p].executed
         /\ \A q \in ProposalIds \ {p} : issuerUpdateProposals'[q] = issuerUpdateProposals[q]

\* C8 (amended): once a proposal is executed it stays executed; every later
\* executeIssuerUpdate or approveIssuerUpdate on it fails, with 'Already executed' when
\* the caller passes the entry point's access check (owner for execute, allow-listed
\* issuer for approve) and with that check's rejection otherwise; none of its fields and
\* none of its approval records changes any more; and every successful execution is of
\* a proposal not executed before, so its action is applied at most once.
C8_ExecutedTerminal ==
    /\ C8_RejectedInState
    /\ EveryGovOneStep(C8_Step)

C8_Witness ==
    /\ last = [op |-> "approveIssuerUpdate", err |-> "Already executed"]
    /\ \E p \in ProposalIds : issuerUpdateProposals[p].executed /\ ~StillValid(p)

C9_RecheckInState ==
    \A p \in ProposalIds : (Pending(p) /\ Approved(p)) =>
        LET q == issuerUpdateProposals[p] IN
        /\ (q.action = "Add" /\ isAuthorizedIssuer[q.newIssuer]) => ExecuteErr(Owner, p) = "Already issuer"
        /\ (q.action = "Rotate" /\ ~isAuthorizedIssuer[q.issuer]) => ExecuteErr(Owner, p) = "Not issuer"
        /\ (q.action = "Rotate" /\ isAuthorizedIssuer[q.issuer] /\ isAuthorizedIssuer[q.newIssuer]) =>
                ExecuteErr(Owner, p) = "Already issuer"

\* what C9 asks of every step
C9_Step ==
    ExecuteFailed => UNCHANGED <<allowVars, govVars, certVars>>

\* C9: executeIssuerUpdate validates the action against the allow-list of the moment of
\* execution: an Add whose newIssuer has become authorized, and a Rotate whose issuer is
\* no longer authorized or whose newIssuer has become authorized, fail even with
\* approvals >= threshold; a failed call leaves the allow-list, issuerList, the
\* proposal's executed flag (still false) and its approvals unchanged.
C9_RevalidatedAtExecute ==
    /\ C9_RecheckInState
    /\ EveryGovOneStep(C9_Step)

C9_Witness ==
    /\ last = [op |-> "executeIssuerUpdate", err |-> "Not issuer"]
    /\ \E p \in ProposalIds :
          /\ Pending(p) /\ Approved(p)
          /\ issuerUpdateProposals[p].action = "Rotate"
          /\ ~isAuthorizedIssuer[issuerUpdateProposals[p].issuer]

\* what C11 asks of every step
C11_Step ==
    IssueOk => \E id \in DOMAIN certificates' \ Stored :
        LET c == certificates'[id] IN
        /\ DOMAIN certificates' = Stored \cup {id}
        /\ \A o \in Stored : certificates'[o] = certificates[o]
        /\ c.status = "Active" /\ c.revokedAt = 0
        /\ c.revokeReason = NoReason /\ c.revokeSignature = NoSig
        /\ c.docHash \in DocHashes /\ c.storageURI \in URIs \ {""} /\ c.salt \in Salts
        /\ id = DeriveId(c.docHash, c.salt, c.issuer, ChainId, c.issuedAt)
        /\ c.issuerSignature =
             Sign(c.issuer, IssueDigest(id, c.docHash, c.storageURI, c.issuer, c.issuedAt, ChainId, c.salt))
        /\ issuedByDocAndIssuer' = issuedByDocAndIssuer \cup {DocIssuerKey(c.docHash, c.issuer)}
        /\ emitted' = <<CertificateIssued(id, c.issuer, c.docHash, c.storageURI, c.issuedAt, c.salt)>>
        /\ UNCHANGED <<allowVars, govVars>>

\* ------------------------------------------------ effects of issue and revoke
\* C11: a successful issueCertificate creates exactly one record, at the id derived from
\* the record's docHash, salt, issuer and issuedAt, with status Active, the issuer's
\* signature over the Issue payload of these fields, revokedAt = 0 and empty revokeReason
\* and revokeSignature; marks the pair as issued; emits exactly one CertificateIssued
\* carrying (certificateId, issuer, docHash, storageURI, issuedAt, salt); and changes no
\* other record, the allow-list or any proposal.
C11_IssueEffect ==
    EveryCertStep(C11_Step)

C11_Witness ==
    /\ last = [op |-> "issueCertificate", err |-> OK]
    /\ Cardinality(Stored) = 2
    /\ Len(emitted) = 1

RevokeFailed == last'.op = "revokeCertificate" /\ last'.err /= OK

C12_CallerGateInState ==
    \A id \in Stored : certificates[id].status = "Active" =>
        \A c \in Callers, r \in Reasons, k \in RevokeSigKinds :
            /\ RevokeOutcome(c, id, r, k) = OK => (c = Owner \/ c = certificates[id].issuer)
            /\ (c /= Owner /\ c /= certificates[id].issuer) => RevokeOutcome(c, id, r, k) = "Not authorized"

\* what C12 asks of every step
C12_Step ==
    RevokeFailed => UNCHANGED stateVars

\* C12: revokeCertificate succeeds only for the record's issuer or the owner: on an
\* Active certificate a call by any other address fails with 'Not authorized', whatever
\* reason and signature it carries, a valid revocation signature of the record's issuer
\* included, and the failed call leaves the record Active and unchanged.
C12_RevokeCallerGate ==
    /\ C12_CallerGateInState
    /\ EveryCertStep(C12_Step)

C12_Witness ==
    /\ last = [op |-> "revokeCertificate", err |-> "Not authorized"]
    /\ \E id \in Stored : certificates[id].status = "Active"
    /\ \A id \in Stored : certificates[id].status = "Active"

ValidReason(r) == r.len > 0 /\ r.len <= MaxReasonLen

C13_SignatureGateInState ==
    \A id \in Stored : certificates[id].status = "Active" =>
        LET issuer == certificates[id].issuer IN
        \A c \in {Owner, issuer}, r \in Reasons, k \in RevokeSigKinds :
            /\ RevokeOutcome(c, id, r, k) = OK =>
                 /\ RevokeSig(k, id, r) /= NoSig
                 /\ RevokeSig(k, id, r) = Sign(issuer, RevokeDigest(id, r, issuer, ChainId))
            /\ (ValidReason(r) /\ k \in (Callers \ {issuer}) \cup {"otherreason", "otherid"}) =>
                 RevokeOutcome(c, id, r, k) = "Invalid revoke signature"
            /\ (ValidReason(r) /\ k = "none") => RevokeOutcome(c, id, r, k) = "Signature required"

\* what C13 asks of every step
C13_Step ==
    /\ RevokeFailed => UNCHANGED stateVars
    /\ RevokeOk => \E id \in Stored :
         LET c == certificates'[id] IN
         /\ certificates[id].status = "Active" /\ c.status = "Revoked"
         /\ c.revokeSignature /= NoSig
         /\ c.revokeSignature = Sign(c.issuer, RevokeDigest(id, c.revokeReason, c.issuer, ChainId))

\* C13: every successful revokeCertificate carries a non-empty signature of the record's
\* issuer over the Revoke payload of exactly (certificateId, reason, record issuer,
\* chainId), and that signature and reason are the ones stored; in a call that passes the
\* earlier requires a signature by another key (the owner's own included) or one made
\* for another certificateId or another reason is rejected with 'Invalid revoke
\* signature', and the rejected call changes no state.
C13_RevokeSignatureGate ==
    /\ C13_SignatureGateInState
    /\ EveryCertStep(C13_Step)

C13_Witness ==
    /\ last = [op |-> "revokeCertificate", err |-> "Invalid revoke signature"]
    /\ \E id \in Stored : certificates[id].status = "Revoked"
    /\ \E id \in Stored : certificates[id].status = "Active"

\* what C14 asks of every step
C14_Step ==
    RevokeOk => \E id \in Stored :
        LET c == certificates[id]
            d == certificates'[id]
        IN
        /\ c.status = "Active"
        /\ certificates' = [certificates EXCEPT ![id] = d]
        /\ d = [c EXCEPT !.status = "Revoked", !.revokeReason = d.revokeReason,
                         !.revokedAt = d.revokedAt, !.revokeSignature = d.revokeSignature]
        /\ d.revokeReason \in Reasons /\ ValidReason(d.revokeReason)
        /\ d.revokedAt \in Times /\ d.revokedAt > 0
        /\ d.revokeSignature /= NoSig
        /\ emitted' = <<CertificateRevoked(id, c.issuer, d.revokeReason, d.revokedAt)>>
        /\ UNCHANGED <<issuedByDocAndIssuer, allowVars, govVars>>

\* C14: a successful revokeCertificate sets the record's status to Revoked, revokeReason
\* to a reason of 1 to 256 bytes, revokedAt to the block timestamp (> 0) and
\* revokeSignature to the signature supplied, emits exactly one
\* CertificateRevoked(certificateId, issuer, reason, revokedAt), and leaves the record's
\* docHash, storageURI, issuer, issuedAt, salt and issuerSignature, the duplicate guard,
\* every other record, the allow-list and the proposals unchanged.
C14_RevokeEffect ==
    EveryCertStep(C14_Step)

C14_Witness ==
    /\ last = [op |-> "revokeCertificate", err |-> OK]
    /\ Len(emitted) = 1
    /\ \E id \in Stored :
          /\ certificates[id].status = "Revoked"
          /\ emitted[1] = CertificateRevoked(id, certificates[id].issuer, certificates[id].revokeReason,
                                             certificates[id].revokedAt)
          /\ certificates[id].revokeReason.len = 7

C15_NotActiveInState ==
    \A id \in RevokeIds : Cert(id).status /= "Active" =>
        \A c \in Callers, r \in Reasons, k \in RevokeSigKinds : RevokeOutcome(c, id, r, k) = "Not active"

\* what C15 asks of every step
C15_Step ==
    \A id \in Stored : certificates[id].status = "Revoked" =>
         (id \in DOMAIN certificates' /\ certificates'[id] = certificates[id])

\* C15: a certificate is revoked at most once: revokeCertificate on an id whose status is
\* not Active (never issued, or already Revoked) fails with 'Not active' for every
\* caller, reason and signature, and a Revoked record, its revokeReason, revokedAt and
\* revokeSignature included, is never written again.
C15_RevokedOnce ==
    /\ C15_NotActiveInState
    /\ EveryCertStep(C15_Step)

C15_Witness ==
    /\ last = [op |-> "revokeCertificate", err |-> "Not active"]
    /\ Cardinality(Stored) = 2
    /\ \A id \in Stored : certificates[id].status = "Revoked"

\* -------------------------------------------------- allow-list and proposals
Members == {issuerList[i] : i \in 1..Len(issuerList)}

\* C16: in every reachable state an address is in issuerList iff isAuthorizedIssuer is
\* true for it, issuerList holds no address twice, and issuerIndexPlusOne[a] is the
\* 1-based position of a in issuerList for every member and 0 for every other address.
C16_AllowListConsistent ==
    /\ \A a \in Addr : a \in Members <=> isAuthorizedIssuer[a]
    /\ \A i \in 1..Len(issuerList), j \in 1..Len(issuerList) : issuerList[i] = issuerList[j] => i = j
    /\ \A i \in 1..Len(issuerList) : issuerIndexPlusOne[issuerList[i]] = i
    /\ \A a \in Addr \ Members : issuerIndexPlusOne[a] = 0

C16_Witness ==
    /\ last = [op |-> "executeIssuerUpdate", err |-> OK]
    /\ Len(emitted) = 3
    /\ Len(issuerList) = 2

MembershipChanges == isAuthorizedIssuer' /= isAuthorizedIssuer \/ issuerList' /= issuerList
ExecutesApproved ==
    /\ ExecuteOk
    /\ \E p \in ProposalIds :
          /\ Pending(p) /\ Approved(p)
          /\ issuerUpdateProposals'[p] = [issuerUpdateProposals[p] EXCEPT !.executed = TRUE]

\* C17 as stated: isAuthorizedIssuer and issuerList change only in a successful
\* executeIssuerUpdate of a proposal that was proposed and has approvals >= threshold.
C17_Original == [][ MembershipChanges => ExecutesApproved ]_vars

\* what C17 asks of every step
C17_Step ==
    MembershipChanges =>
        \/ last' = [op |-> "addIssuer", err |-> OK]
        \/ last' = [op |-> "removeIssuer", err |-> OK]
        \/ ExecutesApproved

\* C17 (amended): isAuthorizedIssuer and issuerList change only in a successful owner
\* call of addIssuer or removeIssuer, which need no proposal, or in a successful
\* executeIssuerUpdate of a proposal that was proposed, is unexecuted and has
\* approvals >= threshold; propose, approve, setIssuerUpdateThreshold and every failed
\* call leave them unchanged.
C17_MembershipWriters ==
    EveryGovOneStep(C17_Step)

C17_Witness ==
    /\ last = [op |-> "executeIssuerUpdate", err |-> OK]
    /\ Len(emitted) = 2
    /\ Len(issuerList) = 2
    /\ issuerUpdateThreshold = 2

ProposeAddOk == last' = [op |-> "proposeAddIssuer", err |-> OK]
ProposeRotateOk == last' = [op |-> "proposeRotateIssuer", err |-> OK]
ProposeFailed == last'.op \in {"proposeAddIssuer", "proposeRotateIssuer"} /\ last'.err /= OK

C18_ValidatedInState ==
    /\ \A c \in Callers, n \in IssuerArgs :
          /\ (n = Zero \/ isAuthorizedIssuer[n]) => ProposeAddErr(c, n) /= OK
          /\ n = Zero => ProposeAddErr(Owner, n) = "Issuer zero"
          /\ (n /= Zero /\ isAuthorizedIssuer[n]) => ProposeAddErr(Owner, n) = "Already issuer"
    /\ \A c \in Callers, o \in IssuerArgs, n \in IssuerArgs :
          /\ (~isAuthorizedIssuer[o] \/ n = Zero \/ isAuthorizedIssuer[n] \/ o = n) => ProposeRotateErr(c, o, n) /= OK
          /\ ~isAuthorizedIssuer[o] => ProposeRotateErr(Owner, o, n) = "Not issuer"
          /\ (isAuthorizedIssuer[o] /\ n = Zero) => ProposeRotateErr(Owner, o, n) = "Issuer zero"
          /\ (isAuthorizedIssuer[o] /\ n /= Zero /\ isAuthorizedIssuer[n]) => ProposeRotateErr(Owner, o, n) = "Already issuer"

\* what C18 asks of every step
C18_Step ==
    /\ ProposeFailed => UNCHANGED stateVars
    /\ ProposeAddOk =>
         LET q == issuerUpdateProposals'[nextIssuerUpdateProposalId] IN
         q.action = "Add" /\ q.newIssuer /= Zero /\ ~isAuthorizedIssuer[q.newIssuer]
    /\ ProposeRotateOk =>
         LET q == issuerUpdateProposals'[nextIssuerUpdateProposalId] IN
         /\ q.action = "Rotate" /\ isAuthorizedIssuer[q.issuer]
         /\ q.newIssuer /= Zero /\ ~isAuthorizedIssuer[q.newIssuer] /\ q.issuer /= q.newIssuer

\* C18: propose validates its targets against the allow-list of the moment of the call:
\* proposeAddIssuer fails when newIssuer is the zero address or already authorized;
\* proposeRotateIssuer fails when the old issuer is not authorized, newIssuer is zero or
\* already authorized, or old equals new; a failed propose creates no proposal and does
\* not advance nextIssuerUpdateProposalId; every proposal created passed the validation.
C18_ProposeValidates ==
    /\ C18_ValidatedInState
    /\ EveryGovOneStep(C18_Step)

C18_Witness ==
    /\ last = [op |-> "proposeRotateIssuer", err |-> "Already issuer"]
    /\ nextIssuerUpdateProposalId = 2
    /\ issuerUpdateProposals[1].action = "Rotate"

C19_IdsInState ==
    \A p \in ProposalIds :
        /\ (1 <= p /\ p < nextIssuerUpdateProposalId) <=> issuerUpdateProposals[p].action \in {"Add", "Rotate"}
        /\ ~(1 <= p /\ p < nextIssuerUpdateProposalId) => issuerUpdateProposals[p] = NoProposal

\* what C19 asks of every step
C19_Step ==
    /\ nextIssuerUpdateProposalId' >= nextIssuerUpdateProposalId
    /\ (nextIssuerUpdateProposalId' /= nextIssuerUpdateProposalId) <=> (ProposeAddOk \/ ProposeRotateOk)
    /\ (ProposeAddOk \/ ProposeRotateOk) =>
         LET id == nextIssuerUpdateProposalId
             q == issuerUpdateProposals'[id]
         IN
         /\ nextIssuerUpdateProposalId' = id + 1
         /\ Len(emitted') = 1 /\ emitted'[1].name = "IssuerUpdateProposed" /\ emitted'[1].proposalId = id
         /\ q.action = (IF ProposeAddOk THEN "Add" ELSE "Rotate")
         /\ q.approvals = 0 /\ q.executed = FALSE
         /\ \A a \in Addr : ~issuerUpdateApprovedBy'[id][a]
         /\ \A o \in ProposalIds \ {id} : issuerUpdateProposals'[o] = issuerUpdateProposals[o]
    /\ \A p \in ProposalIds : issuerUpdateProposals[p].action /= "None" =>
         /\ issuerUpdateProposals'[p].action = issuerUpdateProposals[p].action
         /\ issuerUpdateProposals'[p].issuer = issuerUpdateProposals[p].issuer
         /\ issuerUpdateProposals'[p].newIssuer = issuerUpdateProposals[p].newIssuer
         /\ issuerUpdateProposals'[p].createdAt = issuerUpdateProposals[p].createdAt

\* C19: proposal ids are allocated consecutively from 1: a successful proposeAddIssuer or
\* proposeRotateIssuer stores the proposal at the current nextIssuerUpdateProposalId,
\* reports that id, and increments the counter by exactly one; the new proposal has
\* approvals = 0 and executed = false; in every reachable state exactly the ids
\* 1..nextIssuerUpdateProposalId-1 hold a proposal with action Add or Rotate and every
\* other id, 0 included, holds none; the counter never decreases and no proposal is
\* removed or retargeted.
C19_ConsecutiveIds ==
    /\ C19_IdsInState
    /\ EveryGovStep(C19_Step)

C19_Witness ==
    /\ last = [op |-> "proposeAddIssuer", err |-> OK]
    /\ nextIssuerUpdateProposalId = 3
    /\ issuerUpdateProposals[1].executed
    /\ issuerUpdateProposals[2].action = "Add"

MayApprove(c, p) ==
    /\ isAuthorizedIssuer[c]
    /\ issuerUpdateProposals[p].action /= "None"
    /\ ~issuerUpdateProposals[p].executed
    /\ ~issuerUpdateApprovedBy[p][c]

C20_ApproveGateInState ==
    \A c \in Callers, p \in ProposalIds :
        /\ ApproveErr(c, p) = OK <=> MayApprove(c, p)
        /\ ApproveErr(c, p) \in {OK, "Issuer not authorized", "Proposal missing", "Already executed", "Already approved"}

\* what C20 asks of every step
C20_Step ==
    /\ ApproveFailed => UNCHANGED stateVars
    /\ ApproveOk => \E c \in Callers, p \in ProposalIds :
         /\ MayApprove(c, p)
         /\ issuerUpdateProposals' = [issuerUpdateProposals EXCEPT
                 ![p].approvals = issuerUpdateProposals[p].approvals + 1]
         /\ issuerUpdateApprovedBy' = [issuerUpdateApprovedBy EXCEPT ![p][c] = TRUE]
         /\ emitted' = <<IssuerUpdateApproved(p, c, issuerUpdateProposals[p].approvals + 1)>>
         /\ UNCHANGED <<certVars, allowVars, issuerUpdateThreshold, nextIssuerUpdateProposalId>>

\* C20: approveIssuerUpdate succeeds exactly when, at the call, the caller is in the
\* allow-list and the proposal exists, is not executed and has no approval recorded for
\* the caller; otherwise it fails with 'Issuer not authorized', 'Proposal missing',
\* 'Already executed' or 'Already approved' and leaves approvals and the approval records
\* unchanged; on success approvals grows by exactly 1, the caller's approval record
\* becomes true and nothing else is written.
C20_ApproveGate ==
    /\ C20_ApproveGateInState
    /\ EveryGovOneStep(C20_Step)

C20_Witness ==
    /\ last = [op |-> "approveIssuerUpdate", err |-> "Proposal missing"]
    /\ \E p \in ProposalIds : issuerUpdateProposals[p].approvals = 2

\* ------------------------------------------------ administration and threshold
AdminOps ==
    {"proposeAddIssuer", "proposeRotateIssuer", "executeIssuerUpdate", "setIssuerUpdateThreshold",
     "addIssuer", "removeIssuer"}

C21_OwnerOnlyInState ==
    \A c \in Callers \ {Owner} :
        /\ \A a \in IssuerArgs :
              /\ ProposeAddErr(c, a) = "OwnableUnauthorizedAccount"
              /\ AddIssuerErr(c, a) = "OwnableUnauthorizedAccount"
              /\ RemoveIssuerErr(c, a) = "OwnableUnauthorizedAccount"
              /\ \A b \in IssuerArgs : ProposeRotateErr(c, a, b) = "OwnableUnauthorizedAccount"
        /\ \A p \in ProposalIds : ExecuteErr(c, p) = "OwnableUnauthorizedAccount"
        /\ \A t \in Thresholds : SetThresholdErr(c, t) = "OwnableUnauthorizedAccount"

\* what C21 asks of every step
C21_Step ==
    (last'.op \in AdminOps /\ last'.err /= OK) => UNCHANGED stateVars

\* C21: proposeAddIssuer, proposeRotateIssuer, executeIssuerUpdate,
\* setIssuerUpdateThreshold, addIssuer and removeIssuer succeed only for the owner: the
\* same call by any other address, an allow-listed issuer included, is rejected by the
\* owner check whatever its arguments, and a rejected call changes no state.
C21_AdminOnly ==
    /\ C21_OwnerOnlyInState
    /\ EveryGovOneStep(C21_Step)

C21_Witness ==
    /\ last = [op |-> "executeIssuerUpdate", err |-> "OwnableUnauthorizedAccount"]
    /\ \E p \in ProposalIds : Pending(p) /\ Approved(p) /\ StillValid(p)
    /\ \E c \in Callers \ {Owner} : isAuthorizedIssuer[c]

SetThresholdOk == last' = [op |-> "setIssuerUpdateThreshold", err |-> OK]
SetThresholdFailed == last'.op = "setIssuerUpdateThreshold" /\ last'.err /= OK

C22_ThresholdInState ==
    /\ issuerUpdateThreshold >= 1
    /\ SetThresholdErr(Owner, 0) = "Threshold zero"
    /\ \A t \in Thresholds \ {0} : SetThresholdErr(Owner, t) = OK
    /\ \A p \in ProposalIds : (Pending(p) /\ StillValid(p)) =>
          /\ issuerUpdateProposals[p].approvals < issuerUpdateThreshold => ExecuteErr(Owner, p) = "Insufficient approvals"
          /\ issuerUpdateProposals[p].approvals >= issuerUpdateThreshold => ExecuteErr(Owner, p) = OK

\* what C22 asks of every step
C22_Step ==
    /\ SetThresholdFailed => UNCHANGED stateVars
    /\ (issuerUpdateThreshold' /= issuerUpdateThreshold) => SetThresholdOk
    /\ SetThresholdOk =>
         /\ issuerUpdateThreshold' \in Thresholds \ {0}
         /\ emitted' = <<IssuerUpdateThresholdUpdated(issuerUpdateThreshold')>>
         /\ UNCHANGED <<certVars, allowVars, nextIssuerUpdateProposalId, issuerUpdateProposals,
                        issuerUpdateApprovedBy>>

\* C22: issuerUpdateThreshold starts at 1 and is at least 1 in every reachable state;
\* setIssuerUpdateThreshold(0) is rejected with 'Threshold zero' and leaves it unchanged;
\* the owner can set any positive value in any state, whatever proposals are pending,
\* and the call writes the threshold only; the value in force governs every proposal
\* not yet executed: above its approvals it blocks the execution, at or below its
\* approvals it allows it.
C22_ThresholdPositive ==
    /\ last.op = "constructor" => issuerUpdateThreshold = 1
    /\ C22_ThresholdInState
    /\ EveryGovOneStep(C22_Step)

C22_Witness ==
    /\ last = [op |-> "setIssuerUpdateThreshold", err |-> OK]
    /\ issuerUpdateThreshold = 2
    /\ \E p \in ProposalIds : Pending(p) /\ StillValid(p) /\ issuerUpdateProposals[p].approvals = 1

\* ------------------------------------------------------- effects of execute
MembersAfter == {issuerList'[i] : i \in 1..Len(issuerList')}
ExecutedNow(p) == ~issuerUpdateProposals[p].executed /\ issuerUpdateProposals'[p].executed

\* what C23 asks of every step
C23_Step ==
    \A p \in ProposalIds : (ExecuteOk /\ ExecutedNow(p) /\ issuerUpdateProposals[p].action = "Add") =>
        LET n == issuerUpdateProposals[p].newIssuer IN
        /\ ~isAuthorizedIssuer[n] /\ n \notin Members
        /\ isAuthorizedIssuer' = [isAuthorizedIssuer EXCEPT ![n] = TRUE]
        /\ issuerList' = Append(issuerList, n)
        /\ issuerIndexPlusOne' = [issuerIndexPlusOne EXCEPT ![n] = Len(issuerList) + 1]
        /\ issuerUpdateProposals' = [issuerUpdateProposals EXCEPT ![p].executed = TRUE]
        /\ emitted' = <<IssuerUpdated(n, TRUE), IssuerUpdateExecuted(p, "Add", Zero, n)>>
        /\ UNCHANGED <<certVars, issuerUpdateThreshold, nextIssuerUpdateProposalId, issuerUpdateApprovedBy>>

\* C23: a successful executeIssuerUpdate of an Add proposal makes newIssuer authorized and
\* the last member of issuerList, leaves every other address's membership and position
\* unchanged, sets the proposal's executed flag and nothing else of the proposals, and
\* emits IssuerUpdated(newIssuer, true) followed by
\* IssuerUpdateExecuted(proposalId, Add, 0, newIssuer).
C23_AddEffect ==
    EveryListStep(C23_Step)

C23_Witness ==
    /\ last = [op |-> "executeIssuerUpdate", err |-> OK]
    /\ Len(emitted) = 2
    /\ Len(issuerList) = 3
    /\ emitted[1] = IssuerUpdated(issuerList[3], TRUE)

\* what C24 asks of every step
C24_Step ==
    /\ \A p \in ProposalIds : (ExecuteOk /\ ExecutedNow(p) /\ issuerUpdateProposals[p].action = "Rotate") =>
          LET o == issuerUpdateProposals[p].issuer
              n == issuerUpdateProposals[p].newIssuer
          IN
          /\ isAuthorizedIssuer[o] /\ ~isAuthorizedIssuer[n]
          /\ isAuthorizedIssuer' = [isAuthorizedIssuer EXCEPT ![o] = FALSE, ![n] = TRUE]
          /\ MembersAfter = (Members \ {o}) \cup {n}
          /\ Len(issuerList') = Len(issuerList)
          /\ emitted' = <<IssuerUpdated(o, FALSE), IssuerUpdated(n, TRUE), IssuerUpdateExecuted(p, "Rotate", o, n)>>
    /\ last'.op = "executeIssuerUpdate" =>
          \/ UNCHANGED allowVars
          \/ \E p \in ProposalIds : ExecuteOk /\ ExecutedNow(p)
                /\ issuerUpdateProposals[p].action = "Add" /\ Len(issuerList') = Len(issuerList) + 1
          \/ \E p \in ProposalIds : ExecuteOk /\ ExecutedNow(p)
                /\ issuerUpdateProposals[p].action = "Rotate" /\ Len(issuerList') = Len(issuerList)
                /\ issuerUpdateProposals[p].issuer \notin MembersAfter
                /\ issuerUpdateProposals[p].newIssuer \in MembersAfter

\* C24: a successful executeIssuerUpdate of a Rotate proposal removes the old issuer and
\* inserts the new one in the same step: after it the old issuer is not authorized and
\* not in issuerList, the new issuer is authorized and in issuerList, every other
\* address's membership and the number of issuers are unchanged; no step of
\* executeIssuerUpdate, successful or failed, applies only the removal or only the
\* insertion.
C24_RotateAtomic ==
    EveryListStep(C24_Step)

C24_Witness ==
    /\ last = [op |-> "executeIssuerUpdate", err |-> OK]
    /\ Len(emitted) = 3
    /\ Len(issuerList) = 2
    /\ emitted[1].authorized = FALSE /\ emitted[1].issuer \notin Members
    /\ issuerList[2] = emitted[2].issuer
    /\ isAuthorizedIssuer[Owner]

\* ------------------------------------------------- records and identifiers
IssuedFields(c) == <<c.docHash, c.storageURI, c.issuer, c.issuedAt, c.salt, c.issuerSignature>>

\* what C25 asks of every step
C25_Step ==
    \A id \in Stored :
        /\ id \in DOMAIN certificates'
        /\ IssuedFields(certificates'[id]) = IssuedFields(certificates[id])

\* C25: once a record is stored, its docHash, storageURI, issuer, issuedAt, salt and
\* issuerSignature are the same after every later step: a revocation, a removal or a
\* rotation of its issuer, and further issueCertificate attempts on its certificateId.
C25_IssuedFieldsFrozen ==
    EveryMixedStep(C25_Step)

C25_Witness ==
    /\ last = [op |-> "executeIssuerUpdate", err |-> OK]
    /\ \E id \in Stored :
          /\ certificates[id].status = "Revoked"
          /\ emitted[1] = IssuerUpdated(certificates[id].issuer, FALSE)
          /\ ~isAuthorizedIssuer[certificates[id].issuer]

C26_DerivedIdInState ==
    /\ \A id \in Stored :
          LET c == certificates[id] IN
          Live(c) /\ id = DeriveId(c.docHash, c.salt, c.issuer, ChainId, c.issuedAt)
    /\ \A d \in DocHashes, idSalt \in Salts, u \in URIs, i \in CertIssuers, t \in IssuedAts, s \in Salts, k \in SigKinds :
          IssueId(d, idSalt, i, t) /= DeriveId(d, s, i, ChainId, t) =>
             /\ IssueOutcome(d, idSalt, u, i, t, s, k) /= OK
             /\ ( /\ isAuthorizedIssuer[i] /\ Cert(IssueId(d, idSalt, i, t)).status = "None"
                  /\ u /= "" /\ t > 0 /\ DocIssuerKey(d, i) \notin issuedByDocAndIssuer ) =>
                    IssueOutcome(d, idSalt, u, i, t, s, k) = "certificateId mismatch"

\* what C26 asks of every step
C26_Step ==
    IssueFailed => UNCHANGED certVars

\* C26: in every reachable state every record stored is Active or Revoked and sits at
\* the id derived from its own (docHash, salt, issuer, chainId, issuedAt); an
\* issueCertificate whose certificateId differs from the derived id never succeeds, is
\* rejected with 'certificateId mismatch' when the requires ahead of the comparison
\* pass, and stores nothing.
C26_StoredUnderDerivedId ==
    /\ C26_DerivedIdInState
    /\ EveryCertStep(C26_Step)

C26_Witness ==
    /\ last = [op |-> "issueCertificate", err |-> "certificateId mismatch"]
    /\ Cardinality(Stored) = 1
    /\ \E id \in Stored : certificates[id].salt = "s2"

\* the error a list of (violated, message) pairs reports: the message of the first
\* violated entry, OK when none is violated
RECURSIVE FirstViolated(_)
FirstViolated(checks) ==
    IF checks = <<>> THEN OK
    ELSE IF checks[1][1] THEN checks[1][2]
    ELSE FirstViolated(Tail(checks))

RevokeSignedByIssuer(certificateId, reason, sig) ==
    RecoverRevokeSigner(certificateId, reason, Cert(certificateId).issuer, sig)
        = [err |-> OK, signer |-> Cert(certificateId).issuer]

\* the six preconditions of revokeCertificate in the order the claim lists them
C27_RevokeOrder(c, id, r, sig) ==
    FirstViolated(<<
        <<Cert(id).status /= "Active", "Not active">>,
        <<c /= Owner /\ c /= Cert(id).issuer, "Not authorized">>,
        <<r.len = 0, "Reason required">>,
        <<r.len > MaxReasonLen, "Reason too long">>,
        <<sig = NoSig, "Signature required">>,
        <<~RevokeSignedByIssuer(id, r, sig), "Invalid revoke signature">> >>)

\* the first six preconditions of issueCertificate in the order the claim lists them
C27_IssueOrderHead(id, d, u, i, t, s) ==
    <<  <<~isAuthorizedIssuer[i], "Issuer not authorized">>,
        <<Cert(id).status /= "None", "Certificate exists">>,
        <<u = "", "storageURI empty">>,
        <<t = 0, "issuedAt zero">>,
        <<DocIssuerKey(d, i) \in issuedByDocAndIssuer, "Duplicate docHash+issuer">>,
        <<id /= DeriveId(d, s, i, ChainId, t), "certificateId mismatch">> >>

\* the claim's list: a signature that is not the issuer's reports 'Invalid signature'
C27_IssueOrderClaimed(id, d, u, i, t, s, sig) ==
    FirstViolated(C27_IssueOrderHead(id, d, u, i, t, s)
        \o << <<~SignedByIssuer(id, d, u, i, t, s, sig), "Invalid signature">> >>)

\* the list with the signature that cannot be decoded reported by ECDSA.recover
C27_IssueOrderAmended(id, d, u, i, t, s, sig) ==
    FirstViolated(C27_IssueOrderHead(id, d, u, i, t, s)
        \o << <<sig = NoSig, "ECDSAInvalidSignatureLength">>,
              <<~SignedByIssuer(id, d, u, i, t, s, sig), "Invalid signature">> >>)

C27_RevokeOrderInState ==
    \A c \in Callers, id \in RevokeIds, r \in Reasons, k \in RevokeSigKinds :
        RevokeOutcome(c, id, r, k) = C27_RevokeOrder(c, id, r, RevokeSig(k, id, r))

C27_IssueOrderInState ==
    \A d \in DocHashes, idSalt \in Salts, u \in URIs, i \in CertIssuers, t \in IssuedAts, s \in Salts, k \in SigKinds :
        LET id == IssueId(d, idSalt, i, t) IN
        IssueOutcome(d, idSalt, u, i, t, s, k) = C27_IssueOrderAmended(id, d, u, i, t, s, IssueSig(k, id, d, u, i, t, s))

\* C27 (as stated): issueCertificate reports the first violated of 'Issuer not authorized',
\* 'Certificate exists', 'storageURI empty', 'issuedAt zero', 'Duplicate docHash+issuer',
\* 'certificateId mismatch', 'Invalid signature', and nothing else.
C27_Original ==
    \A d \in DocHashes, idSalt \in Salts, u \in URIs, i \in CertIssuers, t \in IssuedAts, s \in Salts, k \in SigKinds :
        LET id == IssueId(d, idSalt, i, t) IN
        IssueOutcome(d, idSalt, u, i, t, s, k) = C27_IssueOrderClaimed(id, d, u, i, t, s, IssueSig(k, id, d, u, i, t, s))

\* what C27 asks of every step
C27_Step ==
    (IssueFailed \/ RevokeFailed) => UNCHANGED stateVars

\* C27 (amended): issueCertificate reports the first violated of 'Issuer not authorized',
\* 'Certificate exists', 'storageURI empty', 'issuedAt zero', 'Duplicate docHash+issuer',
\* 'certificateId mismatch', then the error of ECDSA.recover for a signature it cannot
\* decode, then 'Invalid signature'; revokeCertificate reports the first violated of
\* 'Not active', 'Not authorized', 'Reason required', 'Reason too long', 'Signature
\* required', 'Invalid revoke signature'; a failed call of either changes no state.
C27_FixedOrder ==
    /\ C27_IssueOrderInState /\ C27_RevokeOrderInState
    /\ EveryCertStep(C27_Step)

\* an issuance whose six leading preconditions hold was refused for its empty signature,
\* in a state where a call violating several preconditions at once is on offer
C27_Witness ==
    /\ last = [op |-> "issueCertificate", err |-> "ECDSAInvalidSignatureLength"]
    /\ Cardinality(Stored) = 1
    /\ \E id \in Stored : certificates[id].status = "Revoked"

\* the issuances that contend with the one that stored record a under idA: those that
\* would succeed in the state before it and offer the same id or the same pair
C28_LoserRejected(idA, a) ==
    \A d \in DocHashes, idSalt \in Salts, u \in URIs, i \in CertIssuers, t \in IssuedAts, s \in Salts, k \in SigKinds :
        ( /\ IssueOutcome(d, idSalt, u, i, t, s, k) = OK
          /\ (IssueId(d, idSalt, i, t) = idA \/ (d = a.docHash /\ i = a.issuer)) )
        => IssueOutcome(d, idSalt, u, i, t, s, k)'
              = IF IssueId(d, idSalt, i, t) = idA THEN "Certificate exists" ELSE "Duplicate docHash+issuer"

C28_WinnerStep ==
    IssueOk =>
        \E idA \in DOMAIN certificates' :
            /\ idA \notin DOMAIN certificates
            /\ DOMAIN certificates' = DOMAIN certificates \cup {idA}
            /\ \A id \in DOMAIN certificates : certificates'[id] = certificates[id]
            /\ {id \in DOMAIN certificates' :
                    /\ certificates'[id].docHash = certificates'[idA].docHash
                    /\ certificates'[id].issuer = certificates'[idA].issuer} = {idA}
            /\ C28_LoserRejected(idA, certificates'[idA])

\* what C28 asks of every step
C28_Step ==
    /\ C28_WinnerStep
    /\ IssueFailed => UNCHANGED stateVars

\* C28: of two issueCertificate transactions that share a certificateId or a (docHash,
\* issuer) pair and would each succeed alone, whichever is processed first succeeds and
\* stores its one record, the other then fails with 'Certificate exists' (same id) or
\* 'Duplicate docHash+issuer' (same pair, other id), and the failed one stores nothing.
C28_ExactlyOneWins ==
    EveryCertStep(C28_Step)

\* the second of two identical issuances was refused: one record, still Active, its
\* issuer still on the allow-list
C28_Witness ==
    /\ last = [op |-> "issueCertificate", err |-> "Certificate exists"]
    /\ Cardinality(Stored) = 1
    /\ \A id \in Stored : certificates[id].status = "Active" /\ isAuthorizedIssuer[certificates[id].issuer]

\* what the claim says the log determines: the allow-list, the threshold, the listed
\* fields of every certificate and of every proposal, and who approved
C29_View ==
    [auth |-> isAuthorizedIssuer,
     members |-> Members,
     threshold |-> issuerUpdateThreshold,
     certs |-> [id \in DOMAIN certificates |->
                    [issuer |-> certificates[id].issuer, docHash |-> certificates[id].docHash,
                     storageURI |-> certificates[id].storageURI, issuedAt |-> certificates[id].issuedAt,
                     salt |-> certificates[id].salt, status |-> certificates[id].status,
                     revokeReason |-> certificates[id].revokeReason, revokedAt |-> certificates[id].revokedAt]],
     proposals |-> [p \in ProposalIds |->
                    [action |-> issuerUpdateProposals[p].action, issuer |-> issuerUpdateProposals[p].issuer,
                     newIssuer |-> issuerUpdateProposals[p].newIssuer,
                     approvals |-> issuerUpdateProposals[p].approvals,
                     executed |-> issuerUpdateProposals[p].executed]],
     approvedBy |-> issuerUpdateApprovedBy,
     nextId |-> nextIssuerUpdateProposalId]

\* the reader of the log applying one event to what it has reconstructed so far
C29_Apply(v, e) ==
    CASE e.name = "IssuerUpdated" ->
            [v EXCEPT !.auth[e.issuer] = e.authorized,
                      !.members = IF e.authorized THEN @ \cup {e.issuer} ELSE @ \ {e.issuer}]
      [] e.name = "IssuerUpdateThresholdUpdated" ->
            [v EXCEPT !.threshold = e.threshold]
      [] e.name = "IssuerUpdateProposed" ->
            [v EXCEPT !.proposals[e.proposalId] =
                            [action |-> e.action, issuer |-> e.issuer, newIssuer |-> e.newIssuer,
                             approvals |-> 0, executed |-> FALSE],
                      !.nextId = e.proposalId + 1]
      [] e.name = "IssuerUpdateApproved" ->
            [v EXCEPT !.proposals[e.proposalId].approvals = e.approvals,
                      !.approvedBy[e.proposalId][e.approver] = TRUE]
      [] e.name = "IssuerUpdateExecuted" ->
            [v EXCEPT !.proposals[e.proposalId].executed = TRUE]
      [] e.name = "CertificateIssued" ->
            [v EXCEPT !.certs = (e.certificateId :>
                            [issuer |-> e.issuer, docHash |-> e.docHash, storageURI |-> e.storageURI,
                             issuedAt |-> e.issuedAt, salt |-> e.salt, status |-> "Active",
                             revokeReason |-> NoReason, revokedAt |-> 0]) @@ @]
      [] e.name = "CertificateRevoked" ->
            [v EXCEPT !.certs[e.certificateId] =
                            [@ EXCEPT !.status = "Revoked", !.revokeReason = e.reason, !.revokedAt = e.revokedAt]]

RECURSIVE C29_Replay(_, _)
C29_Replay(v, events) ==
    IF events = <<>> THEN v ELSE C29_Replay(C29_Apply(v, Head(events)), Tail(events))

\* what C29 asks of every step
C29_Step ==
    /\ C29_View' = C29_Replay(C29_View, emitted')
    /\ last'.err /= OK => (emitted' = <<>> /\ UNCHANGED stateVars)
    /\ stateVars' /= stateVars => (last'.err = OK /\ emitted' /= <<>>)

\* C29: the events of every transaction, applied in order to what the log gave before
\* it, give the allow-list, the threshold, every certificate's issuer, docHash,
\* storageURI, issuedAt, salt, status, revokeReason and revokedAt and every proposal's
\* action, targets, approvals and executed flag of the state after it; a failed call
\* emits nothing and changes nothing, and a call that changes the state emits an event.
C29_EventsReplay ==
    EveryAuditStep(C29_Step)

\* a rotation was just executed, with its three events, while the registry holds a
\* revoked certificate and an approved proposal
C29_Witness ==
    /\ last = [op |-> "executeIssuerUpdate", err |-> OK]
    /\ Len(emitted) = 3
    /\ emitted[1].name = "IssuerUpdated" /\ ~emitted[1].authorized
    /\ \E id \in Stored : certificates[id].status = "Revoked"
    /\ \E p \in ProposalIds : issuerUpdateProposals[p].approvals >= 1 /\ issuerUpdateProposals[p].executed

\* the five values of a stored record from which its id derives
C30_ClientId(c) == generateCertificateId(c.docHash, c.salt, c.issuer, ChainId, c.issuedAt)

C30_SameIdInState ==
    \A d \in DocHashes, i \in CertIssuers, t \in IssuedAts, s \in Salts :
        /\ DeriveId(d, s, i, ChainId, t) = generateCertificateId(d, s, i, ChainId, t)
        /\ deriveCertificateId(d, s, i, ChainId, t) = generateCertificateId(d, s, i, ChainId, t)
        /\ \A s2 \in Salts \ {s} :
              generateCertificateId(d, s2, i, ChainId, t) /= generateCertificateId(d, s, i, ChainId, t)
        /\ \A idSalt \in Salts, u \in URIs, k \in SigKinds :
              IssueOutcome(d, idSalt, u, i, t, s, k) = OK =>
                  IssueId(d, idSalt, i, t) = generateCertificateId(d, s, i, ChainId, t)
        /\ ( /\ isAuthorizedIssuer[i] /\ t > 0
             /\ Cert(generateCertificateId(d, s, i, ChainId, t)).status = "None"
             /\ DocIssuerKey(d, i) \notin issuedByDocAndIssuer )
           => \E u \in URIs, idSalt \in Salts :
                 /\ IssueOutcome(d, idSalt, u, i, t, s, i) = OK
                 /\ IssueId(d, idSalt, i, t) = generateCertificateId(d, s, i, ChainId, t)

\* what C30 asks of every step
C30_Step ==
    IssueOk => \A id \in DOMAIN certificates' \ DOMAIN certificates :
                   id = C30_ClientId(certificates'[id])

\* C30: in every reachable state the id issueCertificate accepts for (docHash, salt,
\* issuer, chainId, issuedAt) is the id generateCertificateId (and the tests'
\* deriveCertificateId) computes from the same five values, whatever the registry holds;
\* every record is stored under that id; and ids computed from values that differ only
\* in the salt differ.
C30_IdDeterministic ==
    /\ C30_SameIdInState
    /\ EveryCertStep(C30_Step)

\* two certificates were accepted under the ids the client computes, for values that
\* differ in the salt
C30_Witness ==
    /\ last = [op |-> "issueCertificate", err |-> OK]
    /\ \E id1 \in Stored, id2 \in Stored :
          /\ certificates[id1].salt /= certificates[id2].salt
          /\ id1 = C30_ClientId(certificates[id1])
          /\ id2 = C30_ClientId(certificates[id2])

\* ----------------------------------------------------------- login claims
Authenticated == session.authenticated = Some(TRUE)
\* a request was served (the clock step leaves the last response in place)
Served == now' = now
VerifyOk == Served /\ last' = [op |-> "verify", err |-> OK]
NonceServed == Served /\ last'.op = "nonce"
\* what the signature of the request just served recovers to under the nonce the
\* session held
C31_Recovered == verifyMessage(loginMessage(session.nonce[1]), request'.signature[1])

C31_AuthInState ==
    /\ Authenticated =>
          /\ session.walletAddress /= Undefined
          /\ session.nonce = Undefined /\ session.nonceExpiresAt = Undefined
    /\ \A body \in VerifyBodies : VerifyErr(body) = OK =>
          /\ session.nonce /= Undefined /\ session.nonceExpiresAt /= Undefined
          /\ now <= session.nonceExpiresAt[1]
          /\ verifyMessage(loginMessage(session.nonce[1]), body.signature[1]).err = OK
          /\ ToLowerCase(verifyMessage(loginMessage(session.nonce[1]), body.signature[1]).address)
                = ToLowerCase(body.address[1])

C31_AuthStep ==
    /\ (session'.authenticated = Some(TRUE) /\ ~Authenticated) =>
          /\ VerifyOk
          /\ session.nonce /= Undefined /\ session.nonceExpiresAt /= Undefined
          /\ now <= session.nonceExpiresAt[1]
          /\ C31_Recovered.err = OK
          /\ ToLowerCase(C31_Recovered.address) = ToLowerCase(request'.address[1])
          /\ session'.walletAddress = Some(C31_Recovered.address)
    /\ VerifyOk => (session'.authenticated = Some(TRUE) /\ ~Authenticated)
    /\ NonceServed => session'.authenticated = Some(FALSE)

\* C31: the session's authenticated flag becomes true only in a verify request served
\* while the session holds a nonce that has not expired and whose signature, over the
\* login message of that nonce, recovers to the address submitted (compared without
\* regard to case); walletAddress is then the recovered address; an authenticated session
\* has a walletAddress and no nonce or expiry; a nonce request sets authenticated false.
C31_NonceChallenge ==
    /\ C31_AuthInState
    /\ EveryLoginStep(C31_AuthStep)

\* a wallet logged in with its address submitted in lower case, after the clock moved
C31_Witness ==
    /\ Authenticated
    /\ last = [op |-> "verify", err |-> OK]
    /\ request.address /= Undefined /\ request.address[1].form = "lower"
    /\ session.walletAddress = Some(Address(request.address[1].wallet, "checksum"))
    /\ now > 0

\* the verify requests that carry an address and a signature
CompleteBodies == {body \in VerifyBodies : body.json /\ body.address /= Undefined /\ body.signature /= Undefined}
NonceExpired == Served /\ last' = [op |-> "verify", err |-> "Nonce expired"]

C32_OnceInState ==
    /\ session.nonce = Undefined =>
          \A body \in CompleteBodies : VerifyErr(body) = "Nonce missing"
    /\ (session.nonce /= Undefined /\ session.nonceExpiresAt /= Undefined /\ now > session.nonceExpiresAt[1]) =>
          \A body \in CompleteBodies : VerifyErr(body) = "Nonce expired"
    /\ session.nonce /= Undefined => session.nonce[1] = nextNonce - 1

C32_OnceStep ==
    /\ VerifyOk =>
          /\ session'.nonce = Undefined /\ session'.nonceExpiresAt = Undefined
          /\ \A body \in CompleteBodies : VerifyErr(body)' = "Nonce missing"
    /\ NonceExpired =>
          /\ now > session.nonceExpiresAt[1]
          /\ session'.nonce = Undefined /\ session'.nonceExpiresAt = Undefined
          /\ session'.authenticated = Some(FALSE)
    /\ (Served /\ last'.op = "verify" /\ session.nonce = Undefined) => session'.nonce = Undefined

Occurrences(list, a) == Cardinality({i \in 1..Len(list) : list[i] = a})

\* list1/idx1 is list0/idx0 with exactly the member a taken out: one entry fewer, every
\* other member still there once, every slot but a's as before, a's slot taken by the
\* former last member, and no index changed but a's and the moved member's
C33_RemovedExactly(a, list0, idx0, list1, idx1) ==
    LET k == idx0[a]
        n == Len(list0)
    IN  /\ k >= 1 /\ list0[k] = a
        /\ Len(list1) = n - 1
        /\ Occurrences(list1, a) = 0
        /\ \A b \in Addr \ {a} : Occurrences(list1, b) = Occurrences(list0, b)
        /\ \A i \in 1..(n - 1) : i /= k => list1[i] = list0[i]
        /\ k < n => (list1[k] = list0[n] /\ idx1[list0[n]] = k)
        /\ idx1[a] = 0
        /\ \A b \in Addr \ {a, list0[n]} : idx1[b] = idx0[b]

NewlyAuthorized == {b \in Addr : ~isAuthorizedIssuer[b] /\ isAuthorizedIssuer'[b]}

\* what C33 asks of every step
C33_Step ==
    \A a \in Addr : (isAuthorizedIssuer[a] /\ ~isAuthorizedIssuer'[a]) =>
        IF NewlyAuthorized = {}
        THEN /\ last' = [op |-> "removeIssuer", err |-> OK]
             /\ C33_RemovedExactly(a, issuerList, issuerIndexPlusOne, issuerList', issuerIndexPlusOne')
        ELSE /\ ExecuteOk
             /\ \E b \in NewlyAuthorized :
                   /\ NewlyAuthorized = {b}
                   /\ issuerList'[Len(issuerList')] = b
                   /\ issuerIndexPlusOne'[b] = Len(issuerList')
                   /\ C33_RemovedExactly(a, issuerList, issuerIndexPlusOne,
                                         SubSeq(issuerList', 1, Len(issuerList') - 1),
                                         [issuerIndexPlusOne' EXCEPT ![b] = issuerIndexPlusOne[b]])

\* C33: whenever an address leaves the allow-list (removeIssuer, or the removal half of
\* a Rotate execution, whose result is then extended by the new issuer at the end),
\* exactly that address is taken out of issuerList: the length drops by one, every other
\* issuer stays exactly once, only the former last element changes position (into the
\* removed slot) and issuerIndexPlusOne changes only for the removed address (to 0) and
\* the moved element.
C33_RemovesExactly ==
    EveryListStep(C33_Step)

\* the first of three members was just removed: the former last member holds slot 1 and
\* the member of slot 2 stayed
C33_Witness ==
    /\ last = [op |-> "removeIssuer", err |-> OK]
    /\ Len(issuerList) = 2
    /\ emitted[1].issuer \notin Members
    /\ issuerList = <<"b", "a">>
    /\ emitted[1].issuer = Owner

\* ------------------------------------------------ further governance claims
Approvers(p) == {a \in Addr : issuerUpdateApprovedBy[p][a]}

C34_CountInState ==
    \A p \in ProposalIds : issuerUpdateProposals[p].approvals = Cardinality(Approvers(p))

C34_CountStep ==
    \A p \in ProposalIds :
        /\ \A a \in Addr : issuerUpdateApprovedBy[p][a] => issuerUpdateApprovedBy'[p][a]
        /\ issuerUpdateProposals'[p].approvals /= issuerUpdateProposals[p].approvals =>
              /\ ApproveOk
              /\ issuerUpdateProposals'[p].approvals = issuerUpdateProposals[p].approvals + 1
        /\ issuerUpdateApprovedBy'[p] /= issuerUpdateApprovedBy[p] =>
              issuerUpdateProposals'[p].approvals = issuerUpdateProposals[p].approvals + 1

\* C34: in every reachable state each proposal's approvals counter is the number of
\* addresses whose approval record for it is true; no approval record goes back to
\* false; and approvals changes only by +1, in a successful approveIssuerUpdate.
C34_ApprovalsCounted ==
    /\ C34_CountInState
    /\ EveryGovOneStep(C34_CountStep)

\* two issuers have approved the same proposal
C34_Witness ==
    /\ last = [op |-> "approveIssuerUpdate", err |-> OK]
    /\ \E p \in ProposalIds :
          /\ issuerUpdateProposals[p].approvals = 2
          /\ Approvers(p) = {"a", "b"}
          /\ emitted[1].approvals = 2 /\ emitted[1].proposalId = p

LiveApprovers(p) == {a \in Approvers(p) : isAuthorizedIssuer[a]}

C35_StaleInState ==
    \A p \in ProposalIds :
        ( /\ Pending(p) /\ Approved(p) /\ StillValid(p)
          /\ Cardinality(LiveApprovers(p)) < issuerUpdateThreshold )
        => ExecuteErr(Owner, p) = OK

C35_StaleStep ==
    (\E a \in Addr : isAuthorizedIssuer[a] /\ ~isAuthorizedIssuer'[a]) =>
        \A p \in ProposalIds :
            /\ issuerUpdateProposals'[p].approvals = issuerUpdateProposals[p].approvals
            /\ issuerUpdateApprovedBy'[p] = issuerUpdateApprovedBy[p]

\* C35: a step that takes an address off the allow-list (removeIssuer or a Rotate
\* execution) leaves every proposal's approvals and approval records as they were, and a
\* pending proposal whose approvals reach the threshold and whose action is still valid
\* can be executed by the owner although fewer than threshold of its approvers (possibly
\* none) are authorized.
C35_ApprovalsSurviveRemoval ==
    /\ C35_StaleInState
    /\ EveryGovOneStep(C35_StaleStep)

\* an Add was just executed on the approval of an issuer no longer on the allow-list
C35_Witness ==
    /\ last = [op |-> "executeIssuerUpdate", err |-> OK]
    /\ Len(emitted) = 2
    /\ LET p == emitted[2].proposalId IN
          /\ issuerUpdateProposals[p].action = "Add"
          /\ Approvers(p) /= {}
          /\ LiveApprovers(p) = {}

C36_KeepsApprovals ==
    \A p \in ProposalIds : Pending(p) =>
        /\ issuerUpdateProposals'[p].approvals >= issuerUpdateProposals[p].approvals
        /\ issuerUpdateProposals'[p].action = issuerUpdateProposals[p].action
        /\ issuerUpdateProposals'[p].issuer = issuerUpdateProposals[p].issuer
        /\ issuerUpdateProposals'[p].newIssuer = issuerUpdateProposals[p].newIssuer
        /\ (issuerUpdateProposals'[p].executed => (ExecuteOk /\ Approved(p) /\ StillValid(p)))

C36_ExecutableAgain ==
    \A p \in ProposalIds :
        ( /\ Pending(p) /\ Approved(p) /\ ~StillValid(p)
          /\ ExecuteErr(Owner, p) \in {"Already issuer", "Not issuer"}
          /\ StillValid(p)' /\ Approved(p)' )
        => /\ Pending(p)'
           /\ issuerUpdateProposals'[p].approvals = issuerUpdateProposals[p].approvals
           /\ ExecuteErr(Owner, p)' = OK

\* what C36 asks of every step
C36_Step ==
    /\ C36_KeepsApprovals
    /\ ExecuteFailed => (issuerUpdateProposals' = issuerUpdateProposals
                         /\ issuerUpdateApprovedBy' = issuerUpdateApprovedBy)
    /\ C36_ExecutableAgain

\* C36: no step but its own successful execution ends a pending proposal or lowers its
\* approvals, whatever time passes; a failed executeIssuerUpdate leaves every proposal as
\* it was; and a pending proposal with enough approvals whose execution fails
\* re-validation ('Already issuer', 'Not issuer') is executable by the owner, with the
\* same approvals, right after a step that makes its action valid again.
C36_NeverExpires ==
    EveryGovOneStep(C36_Step)

\* removeIssuer just took the target of an approved Add proposal off the allow-list: the
\* proposal, not executable before the removal, is executable now
C36_Witness ==
    /\ last = [op |-> "removeIssuer", err |-> OK]
    /\ \E p \in ProposalIds :
          /\ Pending(p) /\ Approved(p)
          /\ issuerUpdateProposals[p].action = "Add"
          /\ issuerUpdateProposals[p].newIssuer = emitted[1].issuer
          /\ ExecuteErr(Owner, p) = OK

\* ------------------------------------------------ independence claims
C37_RemovedCanRevoke ==
    \A id \in Stored :
        LET c == certificates[id] IN
        (c.status = "Active" /\ ~isAuthorizedIssuer[c.issuer]) =>
            \A r \in Reasons : ValidReason(r) =>
                /\ RevokeOutcome(c.issuer, id, r, c.issuer) = OK
                /\ RevokeOutcome(Owner, id, r, c.issuer) = OK

C37_SameOutcome ==
    (MembershipChanges /\ certificates' = certificates) =>
        \A c \in Callers, id \in RevokeIds, r \in Reasons, k \in RevokeSigKinds :
            RevokeOutcome(c, id, r, k)' = RevokeOutcome(c, id, r, k)

\* what C37 asks of every step
C37_Step ==
    /\ C37_SameOutcome
    /\ MembershipChanges => UNCHANGED certVars

\* C37: across every step that changes the allow-list and leaves the certificates alone,
\* every revokeCertificate call has the same outcome before and after; an
\* Active certificate whose issuer is off the allow-list can be revoked by that issuer
\* (and by the owner) with the issuer's signature; and a step that changes the allow-list
\* changes no certificate record and no duplicate-guard entry.
C37_RevokeIgnoresAllowList ==
    /\ C37_RemovedCanRevoke
    /\ EveryMixedStep(C37_Step)

\* a certificate was just revoked whose issuer is no longer on the allow-list
C37_Witness ==
    /\ last = [op |-> "revokeCertificate", err |-> OK]
    /\ \E id \in Stored :
          /\ emitted[1].certificateId = id
          /\ certificates[id].status = "Revoked"
          /\ ~isAuthorizedIssuer[certificates[id].issuer]
          /\ Len(issuerList) = 1

\* the state and response every submitter of the issuance must obtain
C38_Result(id, d, u, i, t, s, sig) ==
    /\ certificates' = (id :> NewCertificate(d, u, i, t, s, sig)) @@ certificates
    /\ issuedByDocAndIssuer' = issuedByDocAndIssuer \cup {DocIssuerKey(d, i)}
    /\ last' = [op |-> "issueCertificate", err |-> OK]
    /\ emitted' = <<CertificateIssued(id, i, d, u, t, s)>>
    /\ UNCHANGED <<allowVars, govVars>>

\* C38: in every reachable state, an issuance that passes the requires is accepted from
\* every caller address, the issuer, the owner and third parties alike, and leaves the
\* same state and events whoever submits it; and the requires pass only with a signature
\* made by the issuer named in the call, who is on the allow-list.
C38_CallerIndependent ==
    \A d \in DocHashes, idSalt \in Salts, u \in URIs, i \in CertIssuers, t \in IssuedAts, s \in Salts, k \in SigKinds :
        IssueOutcome(d, idSalt, u, i, t, s, k) = OK =>
            LET id == IssueId(d, idSalt, i, t)
                sig == IssueSig(k, id, d, u, i, t, s)
            IN  /\ k = i /\ isAuthorizedIssuer[i]
                /\ SignedByIssuer(id, d, u, i, t, s, sig)
                /\ Cardinality(DOMAIN certificates) < MaxCerts =>
                      \A c \in Callers :
                          /\ ENABLED (issueCertificate(c, id, d, u, i, t, s, sig) /\ C38_Result(id, d, u, i, t, s, sig))
                          /\ ~ENABLED (issueCertificate(c, id, d, u, i, t, s, sig) /\ ~C38_Result(id, d, u, i, t, s, sig))

\* a certificate of issuer a was accepted while the owner and b, who can submit it as
\* well, are not on the allow-list
C38_Witness ==
    /\ last = [op |-> "issueCertificate", err |-> OK]
    /\ Members = {"a"}
    /\ Cardinality(Stored) = 1
    /\ \A id \in Stored : certificates[id].issuer = "a" /\ certificates[id].status = "Active"

\* ------------------------------------------------ record consistency
\* the ids a call can name: those derived from the offered values and the stored ones
C39_Ids ==
    Stored \cup {DeriveId(d, s, i, ChainId, t) : d \in DocHashes, s \in Salts, i \in CertIssuers, t \in IssuedAts}

\* C39: in every reachable state a record with status None has every field at its
\* default; an Active record has revokedAt = 0 and empty revokeReason and
\* revokeSignature; a Revoked record has a revokeReason of 1 to 256 bytes, revokedAt > 0
\* and a non-empty revokeSignature that recovers, over the Revoke payload of its id and
\* reason, to the record's issuer.
C39_RevocationFields ==
    \A id \in C39_Ids :
        LET c == Cert(id) IN
        /\ c.status \in {"None", "Active", "Revoked"}
        /\ c.status = "None" => c = NoCertificate
        /\ c.status = "Active" =>
              c.revokedAt = 0 /\ c.revokeReason = NoReason /\ c.revokeSignature = NoSig
        /\ c.status = "Revoked" =>
              /\ c.revokeReason.len >= 1 /\ c.revokeReason.len <= MaxReasonLen
              /\ c.revokedAt > 0
              /\ c.revokeSignature /= NoSig
              /\ RecoverRevokeSigner(id, c.revokeReason, c.issuer, c.revokeSignature)
                    = [err |-> OK, signer |-> c.issuer]

\* a certificate was just revoked, next to one that is Active and ids never issued
C39_Witness ==
    /\ last = [op |-> "revokeCertificate", err |-> OK]
    /\ \E id \in Stored : certificates[id].status = "Revoked" /\ certificates[id].revokeReason.len = 5
    /\ \E id \in Stored : certificates[id].status = "Active"
    /\ \E id \in C39_Ids : Cert(id).status = "None"

\* ---------------------------------------------------------------- C40
\* no address is authorized, no proposal holds an approval and none was executed: the
\* deployed state, and every state before the first successful addIssuer
C40_Fresh ==
    /\ Members = {}
    /\ \A a \in Addr : ~isAuthorizedIssuer[a]
    /\ \A p \in ProposalIds :
          issuerUpdateProposals[p].approvals = 0 /\ ~issuerUpdateProposals[p].executed

AddIssuerOk == last' = [op |-> "addIssuer", err |-> OK]

\* from such a state no approveIssuerUpdate and no executeIssuerUpdate succeeds, and the
\* state is left only by a successful addIssuer
C40_NoBootstrapStep ==
    C40_Fresh => (~ApproveOk /\ ~ExecuteOk /\ (C40_Fresh' \/ AddIssuerOk))

\* the contract's half of C40: governance does not start without a direct addIssuer
C40_NoBootstrap ==
    /\ C40_Fresh
    /\ [](issuerUpdateThreshold >= 1)
    /\ [][C40_NoBootstrapStep]_vars

\* the add route sends addIssuer only with an empty issuerList and proposeAddIssuer with
\* a non-empty one
C40_RouteStep ==
    /\ last'.op = "addIssuer" => Len(issuerList) = 0
    /\ last'.op = "proposeAddIssuer" => Len(issuerList) > 0

\* C40: starting from the deployed state (empty allow-list, threshold 1, no proposals),
\* no approveIssuerUpdate and no executeIssuerUpdate succeeds before a successful direct
\* addIssuer, the threshold being always at least 1; and the web add route calls
\* addIssuer directly only when the issuer list is empty and otherwise creates a
\* proposal.
C40_BootstrapOnlyWhenEmpty ==
    /\ C40_Fresh
    /\ issuerUpdateThreshold = 1
    /\ nextIssuerUpdateProposalId = 1
    /\ [](issuerUpdateThreshold >= 1)
    /\ [][C40_NoBootstrapStep /\ C40_RouteStep]_vars

\* the add route has just added a second issuer directly, with no proposal stored and
\* no approval given
C40_Witness ==
    /\ last = [op |-> "addIssuer", err |-> OK]
    /\ Len(issuerList) = 2
    /\ nextIssuerUpdateProposalId = 1
    /\ \A p \in ProposalIds : issuerUpdateProposals[p].approvals = 0
====
